---- MODULE Spec2Model ----
(***************************************************************************)
(* A model of the co-noir command line driver                              *)
(* (co-noir/co-noir/src/bin/co-noir.rs).  One run of the binary executes   *)
(* one subcommand handler against the file system.  The handlers are       *)
(* modelled step by step: `pc` is the handler's position, `local` holds    *)
(* its local variables under the names the source gives them, `io` is the  *)
(* list of file and network operations performed so far, and `exit` is     *)
(* what `main` returns.                                                    *)
(***************************************************************************)
EXTENDS Integers, Sequences, FiniteSets, TLC

VARIABLES
    command,    \* the subcommand `main` dispatches to (Commands)
    config,     \* the parsed *Config of the subcommand
    disk,       \* the file system: path -> file content
    pc,         \* position inside the handler
    local,      \* the handler's local variables
    io,         \* file-system and network operations performed so far, in order
    exit        \* "running", "SUCCESS", "FAILURE", or the error returned

vars == <<command, config, disk, pc, local, io, exit>>

(***************************************************************************)
(* Bounds of the model.                                                    *)
(***************************************************************************)
\* the largest number of input share files given to merge-input-shares
MaxInputs == 3
\* the largest length of a witness
MaxLen == 2
\* the largest --threshold given on the command line
MaxThreshold == 2
\* the largest --num-parties given on the command line
MaxParties == 3

(***************************************************************************)
(* Values shared by all handlers.                                          *)
(***************************************************************************)
\* enum MPCProtocol, as matched in the handlers
MPCProtocol == {"REP3", "SHAMIR"}

\* The names of witnesses/inputs, listed in the order BTreeMap<String, _>
\* iterates them (ascending String order).
WitnessNames == <<"x", "y", "z">>

KeySet == {WitnessNames[i] : i \in 1..Len(WitnessNames)}

\* File contents.
Missing == [kind |-> "missing"]          \* no such file; it can be created
NoDir == [kind |-> "nodir"]              \* no such file, and File::create fails
Garbage == [kind |-> "garbage"]          \* a file bincode cannot decode

ShareMapFile(m) == [kind |-> "NamedShareMap", data |-> m]

\* An I/O operation on a path.
Op(what, path) == <<what, path>>

\* The operations `what` applied to the first k paths of a list.
OpsOn(what, paths, k) == [i \in 1..k |-> Op(what, paths[i])]

\* The index of the first TRUE of a sequence of booleans, or its length + 1:
\* where a loop with an early return stops.
FirstIndex(flags) ==
    IF \E i \in 1..Len(flags) : flags[i]
    THEN CHOOSE i \in 1..Len(flags) :
            /\ flags[i]
            /\ \A j \in 1..(i - 1) : ~flags[j]
    ELSE Len(flags) + 1

\* A handler returns: Err(..) or Ok(ExitCode).
Return(code) ==
    /\ pc' = "done"
    /\ exit' = code

(***************************************************************************)
(* merge-input-shares: run_merge_input_shares                              *)
(***************************************************************************)
InputPath(i) == <<"input", i>>
OutPath == <<"out", 0>>

\* The share of witness k in contributor i's file.  Shares are opaque to the
\* merge; the shares of different contributors are different values.
ContributorShare(i, k) == <<i, k>>

ContributorMap(i, K) == [k \in K |-> ContributorShare(i, k)]

\* What an input file may hold: nothing, garbage or a map with some keys.
InputStates ==
    {Missing, Garbage} \cup {[kind |-> "keys", keys |-> K] : K \in SUBSET KeySet}

\* The i-th input file in the given state.
InputFile(i, state) ==
    IF state.kind = "keys" THEN ShareMapFile(ContributorMap(i, state.keys)) ELSE state

\* BTreeMap::into_iter: the (key, value) pairs in ascending key order.
IntoIter(m) ==
    LET keys == SelectSeq(WitnessNames, LAMBDA k : k \in DOMAIN m)
    IN  [j \in 1..Len(keys) |-> <<keys[j], m[keys[j]]>>]

\* A plausible slip: only the first contributor is visited.
FlattenFirstOnly(input_shares) ==
    IF input_shares = <<>> THEN <<>> ELSE IntoIter(Head(input_shares))

RECURSIVE Flatten(_)
\* The order in which the nested loops visit the pairs of all contributors.
Flatten(input_shares) ==
    IF input_shares = <<>> THEN <<>>
    ELSE IntoIter(Head(input_shares)) \o Flatten(Tail(input_shares))

\* result.insert(wit, share) on a map
MapInsert(m, wit, share) ==
    [k \in DOMAIN m \cup {wit} |-> IF k = wit THEN share ELSE m[k]]

\* A plausible slip: on a key already present the first share is kept and
\* the merge goes on.
InsertKeepingFirst(result, wit, share) ==
    IF wit \in DOMAIN result
    THEN [err |-> FALSE, result |-> result]
    ELSE [err |-> FALSE, result |-> MapInsert(result, wit, share)]

\* A plausible slip: no contains_key test, the later share silently wins.
InsertOverwriting(result, wit, share) ==
    [err |-> FALSE, result |-> MapInsert(result, wit, share)]

\* The body of the inner loop: contains_key, then insert.
InsertShare(result, wit, share) ==
    IF wit \in DOMAIN result
    THEN [err |-> TRUE, result |-> result]
    ELSE [err |-> FALSE, result |-> MapInsert(result, wit, share)]

RECURSIVE MergePairs(_, _)
MergePairs(result, pairs) ==
    IF pairs = <<>> THEN [err |-> FALSE, result |-> result]
    ELSE LET r == InsertShare(result, Head(pairs)[1], Head(pairs)[2])
         IN  IF r.err THEN r ELSE MergePairs(r.result, Tail(pairs))

\* The merge loop as a function of the decoded contributor maps: the merged
\* map, or the error (which carries no partial map).
MergeMaps(input_shares) ==
    LET r == MergePairs(<<>>, Flatten(input_shares))
    IN  IF r.err THEN [err |-> TRUE, result |-> <<>>] ELSE r

InitMerge ==
    /\ command = "MergeInputShares"
    /\ \E n \in 0..MaxInputs, protocol \in MPCProtocol :
         /\ config = [inputs |-> [i \in 1..n |-> InputPath(i)],
                      protocol |-> protocol,
                      out |-> OutPath]
         /\ \E outfile \in {Missing, NoDir} :
            \E files \in [1..n -> InputStates] :
              disk = [p \in {InputPath(i) : i \in 1..n} \cup {OutPath} |->
                         IF p = OutPath THEN outfile ELSE InputFile(p[2], files[p[2]])]
    /\ pc = "validate"
    /\ local = [input_shares |-> <<>>, pending |-> <<>>, result |-> <<>>]
    /\ io = <<>>
    /\ exit = "running"

\* A plausible slip: the bound on the number of inputs off by one.
MergeValidateOffByOne ==
    /\ command = "MergeInputShares"
    /\ pc = "validate"
    /\ IF config.protocol # "REP3"
       THEN Return("UnsupportedProtocol")
       ELSE IF Len(config.inputs) < 1
       THEN Return("TooFewContributors")
       ELSE pc' = "check_files" /\ exit' = exit
    /\ UNCHANGED <<command, config, disk, local, io>>

\* The protocol test and the test on the number of inputs.
MergeValidate ==
    /\ command = "MergeInputShares"
    /\ pc = "validate"
    /\ IF config.protocol # "REP3"
       THEN Return("UnsupportedProtocol")
       ELSE IF Len(config.inputs) < 2
       THEN Return("TooFewContributors")
       ELSE pc' = "check_files" /\ exit' = exit
    /\ UNCHANGED <<command, config, disk, local, io>>

\* A plausible slip: the output file is created before the inputs are looked
\* at.
MergeCheckFilesAfterCreate ==
    /\ command = "MergeInputShares"
    /\ pc = "check_files"
    /\ disk' = IF disk[config.out].kind = "nodir" THEN disk
               ELSE [disk EXCEPT ![config.out] = ShareMapFile(<<>>)]
    /\ LET inputs == config.inputs
           bad == FirstIndex([i \in 1..Len(inputs) |->
                                disk[inputs[i]].kind \in {"missing", "nodir"}])
       IN  IF bad <= Len(inputs)
           THEN /\ io' = io \o <<Op("create", config.out)>> \o OpsOn("exists", inputs, bad)
                /\ Return("FileNotFound")
           ELSE /\ io' = io \o <<Op("create", config.out)>>
                            \o OpsOn("exists", inputs, Len(inputs))
                /\ pc' = "read"
                /\ exit' = exit
    /\ UNCHANGED <<command, config, local>>

\* for input in &inputs { check_file_exists(input)? }
MergeCheckFiles ==
    /\ command = "MergeInputShares"
    /\ pc = "check_files"
    /\ LET inputs == config.inputs
           bad == FirstIndex([i \in 1..Len(inputs) |->
                                disk[inputs[i]].kind \in {"missing", "nodir"}])
       IN  IF bad <= Len(inputs)
           THEN /\ io' = io \o OpsOn("exists", inputs, bad)
                /\ Return("FileNotFound")
           ELSE /\ io' = io \o OpsOn("exists", inputs, Len(inputs))
                /\ pc' = "read"
                /\ exit' = exit
    /\ UNCHANGED <<command, config, disk, local>>

\* inputs.iter().map(open, deserialize).collect::<Result<Vec<_>, _>>()?
\* collect stops at the first input that fails.
MergeRead ==
    /\ command = "MergeInputShares"
    /\ pc = "read"
    /\ LET inputs == config.inputs
           bad == FirstIndex([i \in 1..Len(inputs) |->
                                disk[inputs[i]].kind # "NamedShareMap"])
       IN  IF bad <= Len(inputs)
           THEN /\ io' = io \o OpsOn("read", inputs, bad)
                /\ Return(IF disk[inputs[bad]].kind = "garbage"
                          THEN "DecodeError" ELSE "FileNotFound")
                /\ local' = local
           ELSE /\ io' = io \o OpsOn("read", inputs, Len(inputs))
                /\ LET input_shares == [i \in 1..Len(inputs) |-> disk[inputs[i]].data]
                   IN  local' = [local EXCEPT !.input_shares = input_shares,
                                              !.pending = Flatten(input_shares),
                                              !.result = <<>>]
                /\ pc' = "merge"
                /\ exit' = exit
    /\ UNCHANGED <<command, config, disk>>

\* One turn of the inner loop.
MergeInsert ==
    /\ command = "MergeInputShares"
    /\ pc = "merge"
    /\ local.pending # <<>>
    /\ LET wit == Head(local.pending)[1]
           share == Head(local.pending)[2]
           r == InsertShare(local.result, wit, share)
       IN  IF r.err
           THEN /\ Return("DuplicateShareKey")
                /\ local' = local
           ELSE /\ local' = [local EXCEPT !.result = r.result,
                                          !.pending = Tail(local.pending)]
                /\ pc' = pc
                /\ exit' = exit
    /\ UNCHANGED <<command, config, disk, io>>

\* After the loops: File::create(&out)?, serialize_into, Ok(SUCCESS).
MergeWrite ==
    /\ command = "MergeInputShares"
    /\ pc = "merge"
    /\ local.pending = <<>>
    /\ io' = Append(io, Op("create", config.out))
    /\ IF disk[config.out].kind = "nodir"
       THEN /\ Return("CreateFailed")
            /\ disk' = disk
       ELSE /\ disk' = [disk EXCEPT ![config.out] = ShareMapFile(local.result)]
            /\ Return("SUCCESS")
    /\ UNCHANGED <<command, config, local>>

NextMerge ==
    \/ MergeValidate
    \/ MergeCheckFiles
    \/ MergeRead
    \/ MergeInsert
    \/ MergeWrite

SpecMerge == InitMerge /\ [][NextMerge]_vars

(***************************************************************************)
(* Properties of merge-input-shares.                                       *)
(***************************************************************************)
Merging == command = "MergeInputShares"

\* The contributor maps have been decoded (the merge loop was entered).
Decoded == Merging /\ local.input_shares # <<>>

KeysOf(maps) == UNION {DOMAIN maps[i] : i \in 1..Len(maps)}

\* Some key occurs in two different contributors.
HasDuplicateKey(maps) ==
    \E i, j \in 1..Len(maps) : i # j /\ DOMAIN maps[i] \cap DOMAIN maps[j] # {}

NoOutputFile == disk[OutPath].kind \in {"missing", "nodir"}

\* C1: whenever some key occurs in two different contributor maps, the merge
\* ends with the duplicate-key error and writes no output; and in every step
\* of a merge, a key already in `result` stays there with the share it has.
C1_DuplicateKeyIsAnError ==
    /\ [](Decoded /\ pc = "done" /\ HasDuplicateKey(local.input_shares)
            => exit = "DuplicateShareKey" /\ NoOutputFile)
    /\ [][Merging =>
            \A k \in DOMAIN local.result :
                k \in DOMAIN local'.result /\ local'.result[k] = local.result[k]]_vars

\* The merge stopped at a duplicate key after it had inserted other keys.
C1_Witness ==
    /\ Decoded /\ pc = "done" /\ exit = "DuplicateShareKey"
    /\ local.result # <<>>
    /\ HasDuplicateKey(local.input_shares)

\* C2: a merge given fewer than 2 inputs ends with an error, which is the
\* too-few-contributors error whenever the protocol is the accepted one
\* (REP3); it has then read no file (no file operation at all) and has
\* produced no output.
C2_TooFewContributors ==
    Merging /\ pc = "done" /\ Len(config.inputs) < 2
        => /\ exit \in {"TooFewContributors", "UnsupportedProtocol"}
           /\ (config.protocol = "REP3" => exit = "TooFewContributors")
           /\ io = <<>>
           /\ NoOutputFile
           /\ local.input_shares = <<>>

\* A merge of exactly one existing, decodable input was refused.
C2_Witness ==
    /\ Merging /\ pc = "done" /\ Len(config.inputs) = 1
    /\ config.protocol = "REP3"
    /\ disk[InputPath(1)].kind = "NamedShareMap"
    /\ exit = "TooFewContributors"

\* The sequence seq reordered by the permutation p of its indices.
Permuted(seq, p) == [i \in 1..Len(seq) |-> seq[p[i]]]

IndexPermutations(n) == {p \in [1..n -> 1..n] : \A i, j \in 1..n : p[i] = p[j] => i = j}

\* A contributor map as the outcome of a merge run of its own.
Merged(m) == [err |-> FALSE, result |-> m]

\* The outcome of a merge run whose inputs are outcomes of earlier runs: a
\* failed run leaves no file to merge.
MergeOutcomes(outcomes) ==
    IF \E b \in 1..Len(outcomes) : outcomes[b].err
    THEN [err |-> TRUE, result |-> <<>>]
    ELSE MergeMaps([b \in 1..Len(outcomes) |-> outcomes[b].result])

RECURSIVE Groupings(_), Blocked(_)
\* Every outcome of merging the contributors of maps (two or more) by some
\* tree of merge runs: each run merges at least two maps, some of which may
\* themselves be outputs of earlier runs; the flat merge is the tree of depth
\* one.
Groupings(maps) ==
    UNION {
        {MergeOutcomes(<<first>> \o rest) :
            first \in (IF l = 1 THEN {Merged(maps[1])} ELSE Groupings(SubSeq(maps, 1, l))),
            rest \in Blocked(SubSeq(maps, l + 1, Len(maps)))}
        : l \in 1..(Len(maps) - 1)}

\* Every way to cut maps (one or more) into contiguous blocks, each block of
\* two or more merged by some tree of runs.
Blocked(maps) ==
    UNION {
        {<<first>> \o rest :
            first \in (IF l = 1 THEN {Merged(maps[1])} ELSE Groupings(SubSeq(maps, 1, l))),
            rest \in (IF l = Len(maps) THEN {<<>>}
                      ELSE Blocked(SubSeq(maps, l + 1, Len(maps))))}
        : l \in 1..Len(maps)}

\* C3: a finished merge has the outcome that every permutation and every
\* grouping of its contributors has: the same merged map when their key sets
\* are pairwise disjoint, and the duplicate-key error when two of them share
\* a key.
C3_MergeCommutativeAssociative ==
    Decoded /\ pc = "done" /\ exit # "CreateFailed" =>
        LET maps == local.input_shares
        IN  \A p \in IndexPermutations(Len(maps)) :
            \A outcome \in Groupings(Permuted(maps, p)) :
                IF HasDuplicateKey(maps)
                THEN outcome.err /\ exit = "DuplicateShareKey"
                ELSE /\ exit = "SUCCESS"
                     /\ outcome = [err |-> FALSE, result |-> disk[OutPath].data]

\* Three contributors with non-empty, pairwise disjoint key sets were merged.
C3_Witness ==
    /\ Decoded /\ pc = "done" /\ exit = "SUCCESS"
    /\ Len(local.input_shares) = 3
    /\ \A i \in 1..3 : DOMAIN local.input_shares[i] # {}

\* C4: after a successful merge the output file holds a map whose key set is
\* the union of the key sets of the input files, and each key has the share
\* that the one input file defining it holds for it.
C4_MergedMapIsDisjointUnion ==
    Merging /\ exit = "SUCCESS" =>
        LET n == Len(config.inputs)
            file(i) == disk[config.inputs[i]].data
            merged == disk[config.out].data
        IN  /\ disk[config.out].kind = "NamedShareMap"
            /\ DOMAIN merged = UNION {DOMAIN file(i) : i \in 1..n}
            /\ \A k \in DOMAIN merged :
                 \E i \in 1..n :
                    /\ k \in DOMAIN file(i)
                    /\ merged[k] = file(i)[k]
                    /\ \A j \in 1..n : j # i => k \notin DOMAIN file(j)

\* A merge of inputs that together define every witness name succeeded.
C4_Witness ==
    /\ Merging /\ exit = "SUCCESS"
    /\ DOMAIN disk[OutPath].data = KeySet
    /\ \E i \in 1..Len(config.inputs) :
         disk[InputPath(i)].data # <<>> /\ DOMAIN disk[InputPath(i)].data # KeySet

(***************************************************************************)
(* Field elements and the two sharing schemes.                             *)
(***************************************************************************)
\* The scalar field of the curve (ark_bn254::Bn254), scaled down to a small
\* prime field.
FieldModulus == 5

Field == 0..(FieldModulus - 1)

FAdd(x, y) == (x + y) % FieldModulus
FSub(x, y) == ((x - y) + FieldModulus) % FieldModulus
FMul(x, y) == (x * y) % FieldModulus

\* rand::thread_rng(): a generator whose stream is fixed by its seed.  One
\* draw steps the state; the value drawn is the new state.
RngStep(rng) == (2 * rng + 3) % FieldModulus

RECURSIVE RngSkip(_, _)
\* The state of the generator after k draws.
RngSkip(rng, k) == IF k = 0 THEN rng ELSE RngSkip(RngStep(rng), k - 1)

\* The next k values drawn from the generator.
RngDraws(rng, k) == [j \in 1..k |-> RngSkip(rng, j)]

\* PubShared<F>, the tag of a witness slot and its cleartext value.
PubSharedPublic(f) == [tag |-> "Public", value |-> f]
PubSharedShared(f) == [tag |-> "Shared", value |-> f]

\* PubShared::from_shared
FromShared(f) == PubSharedShared(f)

\* PubShared::set_public, on the slot itself
SetPublic(slot) == PubSharedPublic(slot.value)

\* SharedBuilderVariable<T, P>, a slot of one party's witness share.
BuilderPublic(f) == [tag |-> "Public", value |-> f]
BuilderShared(share) == [tag |-> "Shared", share |-> share]

\* A plausible slip: the first part is value - a, b is not subtracted.
Rep3SharesNotSubtractingB(value, a, b) ==
    LET parts == <<FSub(value, a), a, b>>
    IN  [p \in 1..3 |-> [a |-> parts[p], b |-> parts[((p + 1) % 3) + 1]]]

\* A plausible slip: one mask only, the third part is 0.
Rep3SharesOneMask(value, a, b) ==
    LET parts == <<FSub(value, a), a, 0>>
    IN  [p \in 1..3 |-> [a |-> parts[p], b |-> parts[((p + 1) % 3) + 1]]]

\* The three replicated shares of value drawn with randomness a, b: the
\* additive parts are (value - a - b, a, b) and party p holds its own part
\* and the part of the party before it.
Rep3Shares(value, a, b) ==
    LET parts == <<FSub(FSub(value, a), b), a, b>>
    IN  [p \in 1..3 |-> [a |-> parts[p], b |-> parts[((p + 1) % 3) + 1]]]

RECURSIVE EvalPoly(_, _)
\* The polynomial with the coefficients coeffs (constant term first) at x.
EvalPoly(coeffs, x) ==
    IF coeffs = <<>> THEN 0
    ELSE FAdd(Head(coeffs), FMul(x, EvalPoly(Tail(coeffs), x)))

\* The Shamir shares of value for num_parties parties: the polynomial with
\* constant term value and the further coefficients coeffs (as many as the
\* degree), evaluated at the points 1..num_parties.
ShamirShares(value, coeffs, num_parties) ==
    [p \in 1..num_parties |-> EvalPoly(<<value>> \o coeffs, p)]

\* The number of Shared slots of a witness before slot j.
SharedBefore(witness, j) ==
    Cardinality({i \in 1..(j - 1) : witness[i].tag = "Shared"})

\* share_rep3: one witness share per party; a Public slot is copied to every
\* party, a Shared slot is shared with two fresh draws.
ShareRep3(witness, rng) ==
    [p \in 1..3 |->
        [j \in 1..Len(witness) |->
            IF witness[j].tag = "Public"
            THEN BuilderPublic(witness[j].value)
            ELSE LET r == RngDraws(RngSkip(rng, 2 * SharedBefore(witness, j)), 2)
                 IN  BuilderShared(Rep3Shares(witness[j].value, r[1], r[2])[p])]]

\* share_shamir: as share_rep3, with a polynomial of the given degree per
\* Shared slot.
ShareShamir(witness, degree, num_parties, rng) ==
    [p \in 1..num_parties |->
        [j \in 1..Len(witness) |->
            IF witness[j].tag = "Public"
            THEN BuilderPublic(witness[j].value)
            ELSE LET r == RngDraws(RngSkip(rng, degree * SharedBefore(witness, j)), degree)
                 IN  BuilderShared(ShamirShares(witness[j].value, r, num_parties)[p])]]

(***************************************************************************)
(* split-witness: run_split_witness                                        *)
(***************************************************************************)
WitnessPath == <<"witness", 0>>
CircuitPath == <<"circuit", 0>>
OutDir == <<"out_dir", 0>>

\* out_dir.join(format!("{}.{}.shared", base_name, i))
SharePath(i) == <<"share", i>>

\* The cleartext values a witness file may hold.
WitnessValues == {0, 1}

WitnessFile(w) == [kind |-> "Witness", data |-> w]
CircuitFile(pub) == [kind |-> "Circuit", public_inputs |-> pub]
Dir == [kind |-> "dir"]
ReadOnlyDir == [kind |-> "readonly_dir"]
WitnessShareFile(share) == [kind |-> "WitnessShare", data |-> share]

\* The elements of a set of numbers below bound, in ascending order.
Ascending(S, bound) == SelectSeq([i \in 1..bound |-> i - 1], LAMBDA x : x \in S)

WitnessFiles ==
    {Missing, Garbage}
    \cup {WitnessFile(w) : w \in UNION {[1..l -> WitnessValues] : l \in 0..MaxLen}}

\* A circuit's public inputs are witness indices; they may lie outside the
\* witness that is given.
CircuitFiles ==
    {Missing, Garbage}
    \cup {CircuitFile(Ascending(S, MaxLen + 1)) : S \in SUBSET (0..MaxLen)}

InitSplit ==
    /\ command = "SplitWitness"
    /\ \E protocol \in MPCProtocol, t \in 0..MaxThreshold, n \in 1..MaxParties :
         config = [witness |-> WitnessPath, circuit |-> CircuitPath,
                   protocol |-> protocol, out_dir |-> OutDir,
                   threshold |-> t, num_parties |-> n]
    /\ \E wfile \in WitnessFiles, cfile \in CircuitFiles,
          dir \in {Missing, Dir, ReadOnlyDir} :
         disk = [p \in {WitnessPath, CircuitPath, OutDir}
                        \cup {SharePath(i) : i \in 0..(MaxParties - 1)} |->
                    CASE p = WitnessPath -> wfile
                      [] p = CircuitPath -> cfile
                      [] p = OutDir -> dir
                      [] OTHER -> Missing]
    /\ pc = "check_files"
    /\ local = [pub_inputs |-> <<>>, witness |-> <<>>, shared |-> FALSE, shares |-> <<>>]
    /\ io = <<>>
    /\ exit = "running"

\* check_file_exists(witness)?; check_file_exists(circuit)?;
\* check_dir_exists(out_dir)?
SplitCheckFiles ==
    /\ command = "SplitWitness"
    /\ pc = "check_files"
    /\ LET paths == <<config.witness, config.circuit, config.out_dir>>
           bad == FirstIndex([i \in 1..Len(paths) |-> disk[paths[i]].kind = "missing"])
       IN  IF bad <= Len(paths)
           THEN /\ io' = io \o OpsOn("exists", paths, bad)
                /\ Return("FileNotFound")
           ELSE /\ io' = io \o OpsOn("exists", paths, Len(paths))
                /\ pc' = "parse"
                /\ exit' = exit
    /\ UNCHANGED <<command, config, disk, local>>

\* get_constraint_system_from_file(circuit)?, get_witness_from_file(witness)?,
\* then every witness value is wrapped by PubShared::from_shared.
SplitParse ==
    /\ command = "SplitWitness"
    /\ pc = "parse"
    /\ IF disk[config.circuit].kind # "Circuit"
       THEN /\ io' = Append(io, Op("read", config.circuit))
            /\ Return("DecodeError")
            /\ local' = local
       ELSE IF disk[config.witness].kind # "Witness"
       THEN /\ io' = io \o <<Op("read", config.circuit), Op("read", config.witness)>>
            /\ Return("DecodeError")
            /\ local' = local
       ELSE /\ io' = io \o <<Op("read", config.circuit), Op("read", config.witness)>>
            /\ LET witness == disk[config.witness].data
               IN  local' = [local EXCEPT
                        !.pub_inputs = disk[config.circuit].public_inputs,
                        !.witness = [j \in 1..Len(witness) |-> FromShared(witness[j])]]
            /\ pc' = "classify"
            /\ exit' = exit
    /\ UNCHANGED <<command, config, disk>>

\* A plausible slip: the slot after the declared one is made public.
SplitSetPublicOffByOne ==
    /\ command = "SplitWitness"
    /\ pc = "classify"
    /\ local.pub_inputs # <<>>
    /\ LET index == Head(local.pub_inputs) + 1
       IN  IF index >= Len(local.witness)
           THEN /\ Return("IndexOutOfBounds")
                /\ local' = local
           ELSE /\ local' = [local EXCEPT
                        !.witness[index + 1] = SetPublic(local.witness[index + 1]),
                        !.pub_inputs = Tail(local.pub_inputs)]
                /\ pc' = pc
                /\ exit' = exit
    /\ UNCHANGED <<command, config, disk, io>>

\* A plausible slip: an index outside the witness is skipped, not refused.
SplitSetPublicSkipping ==
    /\ command = "SplitWitness"
    /\ pc = "classify"
    /\ local.pub_inputs # <<>>
    /\ LET index == Head(local.pub_inputs)
       IN  IF index >= Len(local.witness)
           THEN local' = [local EXCEPT !.pub_inputs = Tail(local.pub_inputs)]
           ELSE local' = [local EXCEPT
                        !.witness[index + 1] = SetPublic(local.witness[index + 1]),
                        !.pub_inputs = Tail(local.pub_inputs)]
    /\ UNCHANGED <<command, config, disk, io, pc, exit>>

\* One turn of `for index in pub_inputs`: the bounds test, then set_public.
\* (Vec indices start at 0, sequence indices at 1.)
SplitSetPublic ==
    /\ command = "SplitWitness"
    /\ pc = "classify"
    /\ local.pub_inputs # <<>>
    /\ LET index == Head(local.pub_inputs)
       IN  IF index >= Len(local.witness)
           THEN /\ Return("IndexOutOfBounds")
                /\ local' = local
           ELSE /\ local' = [local EXCEPT
                        !.witness[index + 1] = SetPublic(local.witness[index + 1]),
                        !.pub_inputs = Tail(local.pub_inputs)]
                /\ pc' = pc
                /\ exit' = exit
    /\ UNCHANGED <<command, config, disk, io>>

\* A plausible slip: the REP3 arm tests the threshold only.
SplitShareThresholdOnly ==
    /\ command = "SplitWitness"
    /\ pc = "classify"
    /\ local.pub_inputs = <<>>
    /\ \E rng \in Field :
         IF config.protocol = "REP3"
         THEN IF config.threshold # 1
              THEN /\ Return("InvalidSchemeParameters")
                   /\ local' = local
              ELSE /\ local' = [local EXCEPT !.shared = TRUE,
                                             !.shares = ShareRep3(local.witness, rng)]
                   /\ pc' = "write"
                   /\ exit' = exit
         ELSE /\ local' = [local EXCEPT
                      !.shared = TRUE,
                      !.shares = ShareShamir(local.witness, config.threshold,
                                             config.num_parties, rng)]
              /\ pc' = "write"
              /\ exit' = exit
    /\ UNCHANGED <<command, config, disk, io>>

\* A plausible slip: share_shamir is given the number of parties for the
\* threshold and the threshold for the number of parties.
SplitShareSwappedArguments ==
    /\ command = "SplitWitness"
    /\ pc = "classify"
    /\ local.pub_inputs = <<>>
    /\ \E rng \in Field :
         IF config.protocol = "REP3"
         THEN IF config.threshold # 1
              THEN /\ Return("InvalidSchemeParameters")
                   /\ local' = local
              ELSE IF config.num_parties # 3
              THEN /\ Return("InvalidSchemeParameters")
                   /\ local' = local
              ELSE /\ local' = [local EXCEPT !.shared = TRUE,
                                             !.shares = ShareRep3(local.witness, rng)]
                   /\ pc' = "write"
                   /\ exit' = exit
         ELSE /\ local' = [local EXCEPT
                      !.shared = TRUE,
                      !.shares = ShareShamir(local.witness, config.num_parties,
                                             config.threshold, rng)]
              /\ pc' = "write"
              /\ exit' = exit
    /\ UNCHANGED <<command, config, disk, io>>

\* After the loop: thread_rng(), then `match protocol`: the REP3 arm tests
\* the threshold and the number of parties and calls share_rep3; the SHAMIR
\* arm calls share_shamir with the threshold and the number of parties as
\* given.
SplitShare ==
    /\ command = "SplitWitness"
    /\ pc = "classify"
    /\ local.pub_inputs = <<>>
    /\ \E rng \in Field :
         IF config.protocol = "REP3"
         THEN IF config.threshold # 1
              THEN /\ Return("InvalidSchemeParameters")
                   /\ local' = local
              ELSE IF config.num_parties # 3
              THEN /\ Return("InvalidSchemeParameters")
                   /\ local' = local
              ELSE /\ local' = [local EXCEPT !.shared = TRUE,
                                             !.shares = ShareRep3(local.witness, rng)]
                   /\ pc' = "write"
                   /\ exit' = exit
         ELSE /\ local' = [local EXCEPT
                      !.shared = TRUE,
                      !.shares = ShareShamir(local.witness, config.threshold,
                                             config.num_parties, rng)]
              /\ pc' = "write"
              /\ exit' = exit
    /\ UNCHANGED <<command, config, disk, io>>

\* A plausible slip: the files are numbered from 1.
SplitWriteOneBased ==
    /\ command = "SplitWitness"
    /\ pc = "write"
    /\ LET shares == local.shares
           paths == [i \in 1..Len(shares) |-> SharePath(i)]
       IN  IF shares # <<>> /\ disk[config.out_dir].kind # "dir"
           THEN /\ io' = Append(io, Op("create", paths[1]))
                /\ Return("CreateFailed")
                /\ disk' = disk
           ELSE /\ io' = io \o OpsOn("create", paths, Len(paths))
                /\ disk' = [p \in DOMAIN disk |->
                              IF \E i \in 1..Len(shares) : p = paths[i]
                              THEN WitnessShareFile(shares[p[2]])
                              ELSE disk[p]]
                /\ Return("SUCCESS")
    /\ UNCHANGED <<command, config, local>>

\* for (i, share) in shares.iter().enumerate(): File::create(path)?,
\* serialize_into; then Ok(SUCCESS).  In a directory that cannot be written
\* the first File::create fails.
SplitWrite ==
    /\ command = "SplitWitness"
    /\ pc = "write"
    /\ LET shares == local.shares
           paths == [i \in 1..Len(shares) |-> SharePath(i - 1)]
       IN  IF shares # <<>> /\ disk[config.out_dir].kind # "dir"
           THEN /\ io' = Append(io, Op("create", paths[1]))
                /\ Return("CreateFailed")
                /\ disk' = disk
           ELSE /\ io' = io \o OpsOn("create", paths, Len(paths))
                /\ disk' = [p \in DOMAIN disk |->
                              IF \E i \in 1..Len(shares) : p = paths[i]
                              THEN WitnessShareFile(shares[p[2] + 1])
                              ELSE disk[p]]
                /\ Return("SUCCESS")
    /\ UNCHANGED <<command, config, local>>

NextSplit ==
    \/ SplitCheckFiles
    \/ SplitParse
    \/ SplitSetPublic
    \/ SplitShare
    \/ SplitWrite

SpecSplit == InitSplit /\ [][NextSplit]_vars

(***************************************************************************)
(* Properties of split-witness.                                            *)
(***************************************************************************)
Splitting == command = "SplitWitness"

\* The loop over the public inputs has run to its end.
Classified ==
    /\ Splitting
    /\ pc \in {"classify", "write", "done"}
    /\ local.pub_inputs = <<>>
    /\ exit \notin {"FileNotFound", "DecodeError"}

\* The indices the circuit file declares public.
DeclaredPublic ==
    {disk[CircuitPath].public_inputs[j] : j \in 1..Len(disk[CircuitPath].public_inputs)}

\* Both input files can be decoded and the output directory exists.
InputsReadable ==
    /\ disk[WitnessPath].kind = "Witness"
    /\ disk[CircuitPath].kind = "Circuit"
    /\ disk[OutDir].kind # "missing"

\* Some declared public index is not an index of the witness.
HasIndexOutOfBounds ==
    /\ InputsReadable
    /\ \E index \in DeclaredPublic : index >= Len(disk[WitnessPath].data)

NoShareFiles == \A i \in 0..(MaxParties - 1) : disk[SharePath(i)].kind = "missing"

\* C5: once a witness of length L is classified with public indices P, all
\* below L, the vector still has length L, slot i holds the value the witness
\* file has at i, and slot i is tagged Public exactly if i is in P and Shared
\* otherwise.
C5_ClassificationMatchesPublicInputs ==
    Classified =>
        LET w == disk[WitnessPath].data
        IN  /\ \A index \in DeclaredPublic : index < Len(w)
            /\ Len(local.witness) = Len(w)
            /\ \A j \in 1..Len(w) :
                 /\ local.witness[j].value = w[j]
                 /\ local.witness[j].tag = (IF (j - 1) \in DeclaredPublic
                                            THEN "Public" ELSE "Shared")

\* A witness of two slots was classified with slot 0 private and slot 1
\* public.
C5_Witness ==
    /\ Classified
    /\ Len(local.witness) = 2
    /\ DeclaredPublic = {1}
    /\ local.witness[1].tag = "Shared" /\ local.witness[2].tag = "Public"

\* C6: when a declared public index is not below the witness length, at no
\* point of the run is a sharing computed or a share file written, the run
\* does not succeed, and a run that got to read its inputs ends with the
\* index-out-of-bounds error.
C6_IndexOutOfBoundsIsAnError ==
    Splitting /\ HasIndexOutOfBounds =>
        /\ ~local.shared
        /\ local.shares = <<>>
        /\ NoShareFiles
        /\ exit # "SUCCESS"
        /\ (pc = "done" => exit = "IndexOutOfBounds")

\* A run was refused for an index out of bounds after an earlier index had
\* been made public.
C6_Witness ==
    /\ Splitting /\ HasIndexOutOfBounds
    /\ pc = "done" /\ exit = "IndexOutOfBounds"
    /\ \E j \in 1..Len(local.witness) : local.witness[j].tag = "Public"

\* C7: under REP3 with (parties, threshold) other than (3, 1), at no point of
\* the run is a sharing computed or a share file written, the run does not
\* succeed, and a run that got to the protocol test ends with the
\* invalid-scheme-parameters error.
C7_Rep3ParametersValidated ==
    Splitting /\ config.protocol = "REP3"
      /\ ~(config.num_parties = 3 /\ config.threshold = 1) =>
        /\ ~local.shared
        /\ local.shares = <<>>
        /\ NoShareFiles
        /\ exit # "SUCCESS"
        /\ (pc = "done" /\ Classified => exit = "InvalidSchemeParameters")

\* A REP3 run with threshold 1 and a wrong number of parties was refused
\* after its witness had been classified.
C7_Witness ==
    /\ Splitting /\ config.protocol = "REP3"
    /\ config.threshold = 1 /\ config.num_parties = 2
    /\ pc = "done" /\ Classified
    /\ exit = "InvalidSchemeParameters"
    /\ Len(local.witness) > 0

\* C8: under SHAMIR with parameters violating 1 <= threshold < parties, no
\* sharing is computed, no share file is written, and a run that got to the
\* protocol match ends with the invalid-scheme-parameters error.
C8_ShamirParametersValidated ==
    Splitting /\ config.protocol = "SHAMIR"
      /\ ~(1 <= config.threshold /\ config.threshold < config.num_parties) =>
        /\ ~local.shared
        /\ NoShareFiles
        /\ (pc = "done" /\ Classified => exit = "InvalidSchemeParameters")

\* The number of parties a sharing of the run is for.
SharingParties == IF config.protocol = "REP3" THEN 3 ELSE config.num_parties

\* The shares the parties hold at slot j are the shares of one sharing of
\* value under the run's scheme.
IsSharingOf(value, j) ==
    IF config.protocol = "REP3"
    THEN \E a \in Field, b \in Field :
            \A p \in 1..3 :
                local.shares[p][j] = BuilderShared(Rep3Shares(value, a, b)[p])
    ELSE \E coeffs \in [1..config.threshold -> Field] :
            \A p \in 1..config.num_parties :
                local.shares[p][j] =
                    BuilderShared(ShamirShares(value, coeffs, config.num_parties)[p])

\* C14: a sharing of a classified witness gives one output per party, each of
\* the witness's length; at a Public slot every party's output holds the
\* cleartext value of the witness at that index; at a Shared slot party p's
\* output holds party p's share of one sharing of the value; on success file
\* i holds the output of party i.
C14_PerPartyWitnessShares ==
    Splitting /\ local.shared =>
        LET w == local.witness
        IN  /\ Len(local.shares) = SharingParties
            /\ \A p \in 1..Len(local.shares) : Len(local.shares[p]) = Len(w)
            /\ \A j \in 1..Len(w) :
                 IF w[j].tag = "Public"
                 THEN \A p \in 1..Len(local.shares) :
                        local.shares[p][j] = BuilderPublic(disk[WitnessPath].data[j])
                 ELSE IsSharingOf(disk[WitnessPath].data[j], j)
            /\ exit = "SUCCESS" =>
                 \A i \in 0..(SharingParties - 1) :
                    disk[SharePath(i)] = WitnessShareFile(local.shares[i + 1])

\* A witness with a public value 1 and a private slot was shared for three
\* Shamir parties with threshold 1 and written.
C14_Witness ==
    /\ Splitting /\ local.shared /\ exit = "SUCCESS"
    /\ config.protocol = "SHAMIR" /\ config.threshold = 1 /\ config.num_parties = 3
    /\ Len(local.witness) = 2
    /\ local.witness[1] = PubSharedPublic(1)
    /\ local.witness[2].tag = "Shared"
    /\ local.shares[1][2] # local.shares[2][2]

\* The errors of the configuration: a protocol the stage does not support, a
\* (parties, threshold) pair the scheme does not allow, a translation that is
\* not REP3 to SHAMIR.
ConfigurationErrors ==
    {"UnsupportedProtocol", "InvalidSchemeParameters", "UnsupportedTranslation"}

\* C9: a run that ends with a configuration error has performed no file or
\* network operation.
C9_ConfigurationErrorBeforeIO ==
    exit \in ConfigurationErrors => io = <<>>

(***************************************************************************)
(* translate-witness: run_translate_witness                                *)
(***************************************************************************)
WitnessSharePath == <<"witness_share", 0>>
Network == <<"network", 0>>

\* The witness w with the slots of the indices in P tagged Public and the
\* others Shared: what the loop of split-witness leaves.
Classify(w, P) ==
    [j \in 1..Len(w) |-> IF (j - 1) \in P THEN PubSharedPublic(w[j]) ELSE PubSharedShared(w[j])]

\* The REP3 witness shares party id may hold: those split-witness writes for
\* it.
Rep3WitnessShares(id) ==
    {ShareRep3(Classify(w, P), rng)[id + 1] :
        w \in UNION {[1..l -> WitnessValues] : l \in 0..MaxLen},
        P \in SUBSET (0..(MaxLen - 1)),
        rng \in Field}

\* The Shared slots of a witness share, in index order ("extract shares
\* only").
ExtractShares(witness_share) ==
    LET shared == SelectSeq(witness_share, LAMBDA slot : slot.tag = "Shared")
    IN  [k \in 1..Len(shared) |-> shared[k].share]

\* A plausible slip: the translated shares are taken from the back (pop()),
\* not from the front.
TranslatedWitnessFromBack(witness_share, translated) ==
    LET k(j) == Cardinality({i \in 1..j : witness_share[i].tag = "Shared"})
    IN  [missing |-> \E j \in 1..Len(witness_share) :
                        witness_share[j].tag = "Shared" /\ k(j) > Len(translated),
         result |-> [j \in 1..Len(witness_share) |->
                        IF witness_share[j].tag = "Public"
                        THEN BuilderPublic(witness_share[j].value)
                        ELSE IF k(j) <= Len(translated)
                        THEN BuilderShared(translated[Len(translated) + 1 - k(j)])
                        ELSE BuilderShared(0)]]

\* A plausible slip: a Public slot is pushed as a Shared one.
TranslatedWitnessSharingAll(witness_share, translated) ==
    LET k(j) == Cardinality({i \in 1..j : witness_share[i].tag = "Shared"})
    IN  [missing |-> \E j \in 1..Len(witness_share) :
                        witness_share[j].tag = "Shared" /\ k(j) > Len(translated),
         result |-> [j \in 1..Len(witness_share) |->
                        IF witness_share[j].tag = "Public"
                        THEN BuilderShared(witness_share[j].value)
                        ELSE IF k(j) <= Len(translated)
                        THEN BuilderShared(translated[k(j)])
                        ELSE BuilderShared(0)]]

\* The result vector: Public slots as they are, and for the k-th Shared slot
\* the next element of the iterator over the translated shares.  `missing`
\* tells that the iterator ran out (expect("enough shares") panics).
TranslatedWitness(witness_share, translated) ==
    LET k(j) == Cardinality({i \in 1..j : witness_share[i].tag = "Shared"})
    IN  [missing |-> \E j \in 1..Len(witness_share) :
                        witness_share[j].tag = "Shared" /\ k(j) > Len(translated),
         result |-> [j \in 1..Len(witness_share) |->
                        IF witness_share[j].tag = "Public"
                        THEN BuilderPublic(witness_share[j].value)
                        ELSE IF k(j) <= Len(translated)
                        THEN BuilderShared(translated[k(j)])
                        ELSE BuilderShared(0)]]

InitTranslate ==
    /\ command = "TranslateWitness"
    /\ \E src \in MPCProtocol, target \in MPCProtocol, id \in 0..2 :
         /\ config = [witness |-> WitnessSharePath, src_protocol |-> src,
                      target_protocol |-> target, out |-> OutPath,
                      network |-> [my_id |-> id]]
         /\ \E file \in {Missing, Garbage}
                        \cup {WitnessShareFile(ws) : ws \in Rep3WitnessShares(id)},
               outfile \in {Missing, NoDir} :
              disk = [p \in {WitnessSharePath, OutPath} |->
                         IF p = OutPath THEN outfile ELSE file]
    /\ pc = "validate"
    /\ local = [witness_share |-> <<>>, shares |-> <<>>, net |-> "none",
                threshold |-> 0, num_pairs |-> 0,
                translated_shares |-> <<>>, result |-> <<>>]
    /\ io = <<>>
    /\ exit = "running"

\* A plausible slip: && for ||, a pair is refused only when both protocols
\* are wrong.
TranslateValidateBothWrong ==
    /\ command = "TranslateWitness"
    /\ pc = "validate"
    /\ IF config.src_protocol # "REP3" /\ config.target_protocol # "SHAMIR"
       THEN Return("UnsupportedTranslation")
       ELSE pc' = "check_files" /\ exit' = exit
    /\ UNCHANGED <<command, config, disk, local, io>>

\* if src_protocol != REP3 || target_protocol != SHAMIR { return Err(..) }
TranslateValidate ==
    /\ command = "TranslateWitness"
    /\ pc = "validate"
    /\ IF config.src_protocol # "REP3" \/ config.target_protocol # "SHAMIR"
       THEN Return("UnsupportedTranslation")
       ELSE pc' = "check_files" /\ exit' = exit
    /\ UNCHANGED <<command, config, disk, local, io>>

\* check_file_exists(&witness)?
TranslateCheckFiles ==
    /\ command = "TranslateWitness"
    /\ pc = "check_files"
    /\ io' = Append(io, Op("exists", config.witness))
    /\ IF disk[config.witness].kind \in {"missing", "nodir"}
       THEN Return("FileNotFound")
       ELSE pc' = "read" /\ exit' = exit
    /\ UNCHANGED <<command, config, disk, local>>

\* File::open, deserialize_from, and the extraction of the Shared slots.
TranslateRead ==
    /\ command = "TranslateWitness"
    /\ pc = "read"
    /\ io' = Append(io, Op("read", config.witness))
    /\ IF disk[config.witness].kind # "WitnessShare"
       THEN /\ Return("DecodeError")
            /\ local' = local
       ELSE /\ local' = [local EXCEPT
                    !.witness_share = disk[config.witness].data,
                    !.shares = ExtractShares(disk[config.witness].data)]
            /\ pc' = "connect"
            /\ exit' = exit
    /\ UNCHANGED <<command, config, disk>>

\* Rep3MpcNet::new(config.network)?: the connection is made or fails.
TranslateConnect ==
    /\ command = "TranslateWitness"
    /\ pc = "connect"
    /\ io' = Append(io, Op("connect", Network))
    /\ \E connected \in BOOLEAN :
         IF connected
         THEN /\ local' = [local EXCEPT !.net = "rep3"]
              /\ pc' = "preprocess"
              /\ exit' = exit
         ELSE /\ local' = local
              /\ Return("NetworkError")
    /\ UNCHANGED <<command, config, disk>>

\* A plausible slip: a pair is requested for every slot of the witness share.
TranslatePreprocessPairPerSlot ==
    /\ command = "TranslateWitness"
    /\ pc = "preprocess"
    /\ io' = Append(io, Op("preprocess", Network))
    /\ \E completed \in BOOLEAN :
         IF completed
         THEN /\ local' = [local EXCEPT !.net = "shamir",
                                        !.threshold = 1,
                                        !.num_pairs = Len(local.witness_share)]
              /\ pc' = "translate"
              /\ exit' = exit
         ELSE /\ local' = [local EXCEPT !.threshold = 1,
                                        !.num_pairs = Len(local.witness_share)]
              /\ Return("ProtocolAborted")
    /\ UNCHANGED <<command, config, disk>>

\* A plausible slip: the output file is created before the rounds are run.
TranslatePreprocessAfterCreate ==
    /\ command = "TranslateWitness"
    /\ pc = "preprocess"
    /\ io' = io \o <<Op("create", config.out), Op("preprocess", Network)>>
    /\ disk' = IF disk[config.out].kind = "nodir" THEN disk
               ELSE [disk EXCEPT ![config.out] = WitnessShareFile(<<>>)]
    /\ \E completed \in BOOLEAN :
         IF completed
         THEN /\ local' = [local EXCEPT !.net = "shamir",
                                        !.threshold = 1,
                                        !.num_pairs = Len(local.shares)]
              /\ pc' = "translate"
              /\ exit' = exit
         ELSE /\ local' = [local EXCEPT !.threshold = 1,
                                        !.num_pairs = Len(local.shares)]
              /\ Return("ProtocolAborted")
    /\ UNCHANGED <<command, config>>

\* threshold = 1; num_pairs = shares.len();
\* ShamirPreprocessing::new(threshold, net.to_shamir_net(), num_pairs)?:
\* rounds with the peers, which complete or fail.
TranslatePreprocess ==
    /\ command = "TranslateWitness"
    /\ pc = "preprocess"
    /\ io' = Append(io, Op("preprocess", Network))
    /\ \E completed \in BOOLEAN :
         IF completed
         THEN /\ local' = [local EXCEPT !.net = "shamir",
                                        !.threshold = 1,
                                        !.num_pairs = Len(local.shares)]
              /\ pc' = "translate"
              /\ exit' = exit
         ELSE /\ local' = [local EXCEPT !.threshold = 1,
                                        !.num_pairs = Len(local.shares)]
              /\ Return("ProtocolAborted")
    /\ UNCHANGED <<command, config, disk>>

\* protocol.translate_primefield_repshare_vec(shares)?: rounds with the
\* peers, which fail or give this party one Shamir share per REP3 share.  The
\* value of a share depends on the peers' shares and randomness: to this
\* party it is any field element.
TranslateShares ==
    /\ command = "TranslateWitness"
    /\ pc = "translate"
    /\ io' = Append(io, Op("translate", Network))
    /\ \E completed \in BOOLEAN, peers \in Field :
         IF completed
         THEN /\ local' = [local EXCEPT
                      !.translated_shares = RngDraws(peers, Len(local.shares))]
              /\ pc' = "build"
              /\ exit' = exit
         ELSE /\ local' = local
              /\ Return("ProtocolAborted")
    /\ UNCHANGED <<command, config, disk>>

\* The loop building `result`, then File::create(&out)?, serialize_into,
\* Ok(SUCCESS).
TranslateWrite ==
    /\ command = "TranslateWitness"
    /\ pc = "build"
    /\ LET built == TranslatedWitness(local.witness_share, local.translated_shares)
       IN  IF built.missing
           THEN /\ Return("panic")
                /\ UNCHANGED <<local, io, disk>>
           ELSE /\ local' = [local EXCEPT !.result = built.result]
                /\ io' = Append(io, Op("create", config.out))
                /\ IF disk[config.out].kind = "nodir"
                   THEN /\ Return("CreateFailed")
                        /\ disk' = disk
                   ELSE /\ disk' = [disk EXCEPT
                                ![config.out] = WitnessShareFile(built.result)]
                        /\ Return("SUCCESS")
    /\ UNCHANGED <<command, config>>

NextTranslate ==
    \/ TranslateValidate
    \/ TranslateCheckFiles
    \/ TranslateRead
    \/ TranslateConnect
    \/ TranslatePreprocess
    \/ TranslateShares
    \/ TranslateWrite

SpecTranslate == InitTranslate /\ [][NextTranslate]_vars

(***************************************************************************)
(* Properties of translate-witness.                                        *)
(***************************************************************************)
Translating == command = "TranslateWitness"

\* C10: a translation for a (source, target) pair other than (REP3, SHAMIR)
\* performs no file or network operation at any point (the witness share
\* file is not opened, no connection is made, no output is written) and ends
\* with the unsupported-translation error.
C10_OnlyRep3ToShamir ==
    Translating
      /\ ~(config.src_protocol = "REP3" /\ config.target_protocol = "SHAMIR") =>
        /\ io = <<>>
        /\ local.net = "none"
        /\ disk[OutPath].kind \in {"missing", "nodir"}
        /\ exit \in {"running", "UnsupportedTranslation"}
        /\ (pc = "done" => exit = "UnsupportedTranslation")

\* A translation from REP3 to REP3 of an existing witness share was refused.
C10_Witness ==
    /\ Translating
    /\ config.src_protocol = "REP3" /\ config.target_protocol = "REP3"
    /\ disk[WitnessSharePath].kind = "WitnessShare"
    /\ pc = "done" /\ exit = "UnsupportedTranslation"

\* The run built its result vector (it ended at or after File::create).
Translated ==
    Translating /\ pc = "done" /\ exit \in {"SUCCESS", "CreateFailed"}

\* C12: the result of a translation has the length of the input witness
\* share; a Public slot is copied unchanged to the same index; the k-th Shared
\* slot (in index order) holds the k-th translated share, which is the
\* translation of the share of that slot; there are exactly as many
\* translated shares as Shared slots, so none is unused or used twice; a
\* successful run writes this vector.
C12_TranslationIsIndexAligned ==
    Translated =>
        LET ws == local.witness_share
            translated == local.translated_shares
        IN  /\ Len(local.result) = Len(ws)
            /\ Len(translated) = Cardinality({j \in 1..Len(ws) : ws[j].tag = "Shared"})
            /\ Len(local.shares) = Len(translated)
            /\ \A j \in 1..Len(ws) :
                 IF ws[j].tag = "Public"
                 THEN local.result[j] = BuilderPublic(ws[j].value)
                 ELSE /\ local.shares[SharedBefore(ws, j) + 1] = ws[j].share
                      /\ local.result[j] =
                            BuilderShared(translated[SharedBefore(ws, j) + 1])
            /\ exit = "SUCCESS" => disk[OutPath] = WitnessShareFile(local.result)

\* A witness share of two Shared slots was translated to two different
\* shares and written.
C12_Witness ==
    /\ Translated /\ exit = "SUCCESS"
    /\ Len(local.witness_share) = 2
    /\ \A j \in 1..2 : local.witness_share[j].tag = "Shared"
    /\ local.translated_shares[1] # local.translated_shares[2]

(***************************************************************************)
(* The pipeline: split-witness, then translate-witness on one of the share *)
(* files it wrote (main is run once per stage).                            *)
(***************************************************************************)
\* main, run again after split-witness has ended under REP3: party id
\* translates its share file.
RunTranslateWitness ==
    /\ command = "SplitWitness"
    /\ pc = "done"
    /\ config.protocol = "REP3"
    /\ \E src \in MPCProtocol, target \in MPCProtocol, id \in 0..2,
          outfile \in {Missing, NoDir} :
         /\ config' = [witness |-> SharePath(id), src_protocol |-> src,
                       target_protocol |-> target, out |-> OutPath,
                       network |-> [my_id |-> id]]
         /\ disk' = [p \in DOMAIN disk \cup {OutPath} |->
                        IF p = OutPath THEN outfile ELSE disk[p]]
    /\ command' = "TranslateWitness"
    /\ pc' = "validate"
    /\ local' = [witness_share |-> <<>>, shares |-> <<>>, net |-> "none",
                 threshold |-> 0, num_pairs |-> 0,
                 translated_shares |-> <<>>, result |-> <<>>]
    /\ io' = <<>>
    /\ exit' = "running"

NextPipeline ==
    \/ NextSplit
    \/ RunTranslateWitness
    \/ NextTranslate

SpecPipeline == InitSplit /\ [][NextPipeline]_vars

\* The tags of a vector of slots.
TagsOf(v) == [j \in 1..Len(v) |-> v[j].tag]

\* The tags the circuit's public-input list gives to a witness of length len.
ClassificationTags(len) ==
    [j \in 1..len |-> IF (j - 1) \in DeclaredPublic THEN "Public" ELSE "Shared"]

\* Every vector the stages hold or have written for a classified witness has
\* the tags of the classification.
TagsFollowClassification ==
    /\ Classified =>
         /\ TagsOf(local.witness) = ClassificationTags(Len(local.witness))
         /\ \A p \in 1..Len(local.shares) :
              TagsOf(local.shares[p]) = TagsOf(local.witness)
    /\ \A p \in DOMAIN disk :
         disk[p].kind = "WitnessShare" =>
            TagsOf(disk[p].data) = ClassificationTags(Len(disk[p].data))
    /\ Translating /\ pc \notin {"validate", "check_files", "read"}
         /\ exit \notin {"UnsupportedTranslation", "FileNotFound", "DecodeError"} =>
            TagsOf(local.witness_share) = TagsOf(disk[config.witness].data)
    /\ Translated => TagsOf(local.result) = TagsOf(local.witness_share)

\* A step changes a tag only from Shared to Public, only in the loop of
\* split-witness and only at an index of the public-input list; a share file
\* keeps its tags.
TagsOnlyPromotedAtSplit ==
    /\ Splitting /\ Splitting' /\ local.witness # <<>> =>
         /\ Len(local'.witness) = Len(local.witness)
         /\ \A j \in 1..Len(local.witness) :
              local'.witness[j].tag # local.witness[j].tag =>
                 /\ local.witness[j].tag = "Shared"
                 /\ local'.witness[j].tag = "Public"
                 /\ pc = "classify"
                 /\ (j - 1) \in DeclaredPublic
    /\ Translating /\ Translating' /\ local.witness_share # <<>> =>
         TagsOf(local'.witness_share) = TagsOf(local.witness_share)
    /\ \A p \in DOMAIN disk :
         disk[p].kind = "WitnessShare" =>
            /\ disk'[p].kind = "WitnessShare"
            /\ TagsOf(disk'[p].data) = TagsOf(disk[p].data)

\* C13: through split-witness and translate-witness the tag of every index
\* of a classified witness stays what the classification made it; the only
\* change of a tag is from Shared to Public, in the loop of split-witness, at
\* an index of the circuit's public-input list; no step turns a Public slot
\* into a Shared one.
C13_TagsNeverChangeAfterClassification ==
    [] TagsFollowClassification /\ [][TagsOnlyPromotedAtSplit]_vars

\* A witness with a Public and a Shared slot was split, and one of its share
\* files was translated and written.
C13_Witness ==
    /\ Translated /\ exit = "SUCCESS"
    /\ disk[config.witness].kind = "WitnessShare"
    /\ TagsOf(local.result) = <<"Public", "Shared">>
    /\ DeclaredPublic = {0}

(***************************************************************************)
(* generate-proof: run_generate_proof                                      *)
(***************************************************************************)
\* The largest circuit size a proving key is given.
MaxCircuitSize == 2

CrsPath == <<"crs", 0>>
PublicInputPath == <<"public_input", 0>>

\* Option<PathBuf>::None
None == <<"none", 0>>

CrsFile == [kind |-> "Crs"]
ProofFile(proof) == [kind |-> "Proof", data |-> proof]
PublicInputFile(strings) == [kind |-> "PublicInputs", data |-> strings]

\* The numbers of correlated-randomness pairs the prover asks for per unit of
\* circuit size (their values are fixed in co_ultrahonk; small ones stand for
\* them).
OINK_CRAND_PAIRS_FACTOR_N == 1
OINK_CRAND_PAIRS_FACTOR_N_MINUS_ONE == 1
OINK_CRAND_PAIRS_CONST == 1
SUMCHECK_ROUND_CRAND_PAIRS_FACTOR == 1
MAX_PARTIAL_RELATION_LENGTH == 1

\* num_pairs = num_pairs_oink_prove + num_pairs_sumcheck_prove
NumPairs(n) ==
    (OINK_CRAND_PAIRS_FACTOR_N * n
        + OINK_CRAND_PAIRS_FACTOR_N_MINUS_ONE * (n - 1)
        + OINK_CRAND_PAIRS_CONST)
    + SUMCHECK_ROUND_CRAND_PAIRS_FACTOR * MAX_PARTIAL_RELATION_LENGTH * (n - 1)

\* Field::to_string: the decimal digits of the value.
DecimalDigit == <<"0", "1", "2", "3", "4", "5", "6", "7", "8", "9">>

\* f.to_string(): the decimal digits of the element with the leading zeros
\* trimmed, which for zero leaves no digit at all.
RECURSIVE FieldToString(_)
FieldToString(f) ==
    IF f = 0 THEN ""
    ELSE FieldToString(f \div 10) \o DecimalDigit[(f % 10) + 1]

\* A plausible slip: every element is written with to_string().
PublicInputAsStringsWithoutZeroCase(public_input) ==
    [k \in 1..Len(public_input) |-> FieldToString(public_input[k])]

\* public_input.iter().map(|f| if f.is_zero() { "0" } else { f.to_string() })
PublicInputAsStrings(public_input) ==
    [k \in 1..Len(public_input) |->
        IF public_input[k] = 0 THEN "0" ELSE FieldToString(public_input[k])]

\* proving_key.get_public_inputs(): the values of the witness at the circuit's
\* public inputs, in the circuit's order.
GetPublicInputs(constraint_system, witness_share) ==
    [k \in 1..Len(constraint_system) |-> witness_share[constraint_system[k] + 1].value]

\* The indices of the Public slots of a witness share.
PublicIndices(witness_share) ==
    {j - 1 : j \in {i \in 1..Len(witness_share) : witness_share[i].tag = "Public"}}

\* The witness shares a party may hold for the prover: those split-witness
\* writes for it under the protocol.
ProverWitnessShares(protocol, t, n, id) ==
    {IF protocol = "REP3"
     THEN ShareRep3(Classify(w, P), rng)[id + 1]
     ELSE ShareShamir(Classify(w, P), t, n, rng)[id + 1] :
        w \in UNION {[1..l -> WitnessValues] : l \in 1..MaxLen},
        P \in {{}, {0}, {0, 1}},
        rng \in {1}}

InitProve ==
    /\ command = "GenerateProof"
    /\ \E protocol \in MPCProtocol, t \in 0..MaxThreshold, n \in 2..MaxParties,
          out \in {None, OutPath}, public_input \in {None, PublicInputPath} :
         /\ protocol = "REP3" => n = 3
         /\ \E id \in 0..(n - 1) :
              /\ config = [witness |-> WitnessSharePath, circuit |-> CircuitPath,
                           crs |-> CrsPath, protocol |-> protocol,
                           out |-> out, public_input |-> public_input,
                           threshold |-> t,
                           network |-> [my_id |-> id, parties |-> n]]
              /\ \E ws \in ProverWitnessShares(protocol, t, n, id) :
                 \E wfile \in {Missing, Garbage, WitnessShareFile(ws)},
                    cfile \in {Missing, Garbage,
                               CircuitFile(Ascending(PublicIndices(ws), Len(ws)))},
                    crs \in {Missing, Garbage, CrsFile},
                    outfile \in {Missing, NoDir}, pifile \in {Missing, NoDir} :
                   disk = [p \in {WitnessSharePath, CircuitPath, CrsPath,
                                  OutPath, PublicInputPath} |->
                              CASE p = WitnessSharePath -> wfile
                                [] p = CircuitPath -> cfile
                                [] p = CrsPath -> crs
                                [] p = OutPath -> outfile
                                [] OTHER -> pifile]
    /\ pc = "check_files"
    /\ local = [witness_file |-> "closed", constraint_system |-> <<>>,
                witness_share |-> <<>>, net |-> "none", forks |-> 0,
                circuit_size |-> 0, public_input |-> <<>>,
                num_pairs |-> 0, proof |-> "none"]
    /\ io = <<>>
    /\ exit = "running"

\* A plausible slip: the witness share is not among the files checked.
ProveCheckFilesSkippingWitness ==
    /\ command = "GenerateProof"
    /\ pc = "check_files"
    /\ LET paths == <<config.circuit, config.crs>>
           bad == FirstIndex([i \in 1..Len(paths) |-> disk[paths[i]].kind = "missing"])
       IN  IF bad <= Len(paths)
           THEN /\ io' = io \o OpsOn("exists", paths, bad)
                /\ Return("FileNotFound")
           ELSE /\ io' = io \o OpsOn("exists", paths, Len(paths))
                /\ pc' = "parse"
                /\ exit' = exit
    /\ UNCHANGED <<command, config, disk, local>>

\* check_file_exists(&witness)?; check_file_exists(&circuit_path)?;
\* check_file_exists(&crs_path)?
ProveCheckFiles ==
    /\ command = "GenerateProof"
    /\ pc = "check_files"
    /\ LET paths == <<config.witness, config.circuit, config.crs>>
           bad == FirstIndex([i \in 1..Len(paths) |-> disk[paths[i]].kind = "missing"])
       IN  IF bad <= Len(paths)
           THEN /\ io' = io \o OpsOn("exists", paths, bad)
                /\ Return("FileNotFound")
           ELSE /\ io' = io \o OpsOn("exists", paths, Len(paths))
                /\ pc' = "parse"
                /\ exit' = exit
    /\ UNCHANGED <<command, config, disk, local>>

\* File::open(witness)?, then get_constraint_system_from_file(&circuit_path)?
ProveParse ==
    /\ command = "GenerateProof"
    /\ pc = "parse"
    /\ io' = io \o <<Op("open", config.witness), Op("read", config.circuit)>>
    /\ IF disk[config.circuit].kind # "Circuit"
       THEN /\ local' = [local EXCEPT !.witness_file = "open"]
            /\ Return("DecodeError")
       ELSE /\ local' = [local EXCEPT
                    !.witness_file = "open",
                    !.constraint_system = disk[config.circuit].public_inputs]
            /\ pc' = "match"
            /\ exit' = exit
    /\ UNCHANGED <<command, config, disk>>

\* `match protocol`: the REP3 arm tests the threshold; both arms then decode
\* the witness share from the opened file.
ProveDeserialize ==
    /\ command = "GenerateProof"
    /\ pc = "match"
    /\ IF config.protocol = "REP3" /\ config.threshold # 1
       THEN /\ Return("InvalidSchemeParameters")
            /\ UNCHANGED <<local, io>>
       ELSE /\ io' = Append(io, Op("read", config.witness))
            /\ IF disk[config.witness].kind # "WitnessShare"
               THEN /\ Return("DecodeError")
                    /\ local' = local
               ELSE /\ local' = [local EXCEPT
                            !.witness_share = disk[config.witness].data]
                    /\ pc' = "connect"
                    /\ exit' = exit
    /\ UNCHANGED <<command, config, disk>>

\* Rep3MpcNet::new(config.network)? / ShamirMpcNet::new(config.network)?: the
\* connection to the peers is made or fails.
ProveConnect ==
    /\ command = "GenerateProof"
    /\ pc = "connect"
    /\ io' = Append(io, Op("connect", Network))
    /\ \E connected \in BOOLEAN :
         IF connected
         THEN /\ local' = [local EXCEPT
                      !.net = IF config.protocol = "REP3" THEN "rep3" ELSE "shamir"]
              /\ pc' = IF config.protocol = "REP3" THEN "fork" ELSE "key"
              /\ exit' = exit
         ELSE /\ local' = local
              /\ Return("NetworkError")
    /\ UNCHANGED <<command, config, disk>>

\* REP3: IoContext::init(net)?, io_context0.fork()?, Rep3UltraHonkDriver::new
ProveFork ==
    /\ command = "GenerateProof"
    /\ pc = "fork"
    /\ io' = Append(io, Op("fork", Network))
    /\ \E completed \in BOOLEAN :
         IF completed
         THEN /\ local' = [local EXCEPT !.forks = 1]
              /\ pc' = "key"
              /\ exit' = exit
         ELSE /\ local' = local
              /\ Return("ProtocolAborted")
    /\ UNCHANGED <<command, config, disk>>

\* create_circuit, get_prover_crs(..).expect("failed to get prover crs"),
\* ProvingKey::create, get_public_inputs.  The circuit size of the key is the
\* library's: any size up to MaxCircuitSize.
ProveKey ==
    /\ command = "GenerateProof"
    /\ pc = "key"
    /\ io' = Append(io, Op("read", config.crs))
    /\ IF disk[config.crs].kind # "Crs"
       THEN /\ Return("panic")
            /\ local' = local
       ELSE /\ \E n \in 1..MaxCircuitSize :
                 local' = [local EXCEPT
                     !.circuit_size = n,
                     !.public_input = GetPublicInputs(local.constraint_system,
                                                      local.witness_share)]
            /\ pc' = IF config.protocol = "REP3" THEN "prove" ELSE "preprocess"
            /\ exit' = exit
    /\ UNCHANGED <<command, config, disk>>

\* SHAMIR: num_pairs from the circuit size, ShamirPreprocessing::new(t, net,
\* num_pairs)?, ShamirProtocol::from, fork_with_pairs(0)?: rounds with the
\* peers, which complete or fail.
ProvePreprocess ==
    /\ command = "GenerateProof"
    /\ pc = "preprocess"
    /\ io' = Append(io, Op("preprocess", Network))
    /\ \E completed \in BOOLEAN :
         IF completed
         THEN /\ local' = [local EXCEPT !.num_pairs = NumPairs(local.circuit_size),
                                        !.forks = 1]
              /\ pc' = "prove"
              /\ exit' = exit
         ELSE /\ local' = [local EXCEPT !.num_pairs = NumPairs(local.circuit_size)]
              /\ Return("ProtocolAborted")
    /\ UNCHANGED <<command, config, disk>>

\* prover.prove(proving_key)?: the rounds of the prover, which complete with
\* a proof or fail.
ProveProve ==
    /\ command = "GenerateProof"
    /\ pc = "prove"
    /\ io' = Append(io, Op("prove", Network))
    /\ \E completed \in BOOLEAN :
         IF completed
         THEN /\ local' = [local EXCEPT
                      !.proof = [kind |-> "HonkProof",
                                 public_input |-> local.public_input]]
              /\ pc' = "write"
              /\ exit' = exit
         ELSE /\ local' = local
              /\ Return("ProtocolAborted")
    /\ UNCHANGED <<command, config, disk>>

\* if let Some(out): File::create(&out)?, write the proof; if let
\* Some(public_input_filename): the strings, File::create?, to_writer; then
\* Ok(SUCCESS).
ProveWrite ==
    /\ command = "GenerateProof"
    /\ pc = "write"
    /\ LET proof_ops == IF config.out = None THEN <<>>
                        ELSE <<Op("create", config.out)>>
           proof_failed == config.out # None /\ disk[config.out].kind = "nodir"
           written == IF config.out = None THEN disk
                      ELSE [disk EXCEPT ![config.out] = ProofFile(local.proof)]
           strings == PublicInputAsStrings(local.public_input)
       IN  IF proof_failed
           THEN /\ io' = io \o proof_ops
                /\ disk' = disk
                /\ Return("CreateFailed")
           ELSE IF config.public_input = None
           THEN /\ io' = io \o proof_ops
                /\ disk' = written
                /\ Return("SUCCESS")
           ELSE /\ io' = io \o proof_ops \o <<Op("create", config.public_input)>>
                /\ IF disk[config.public_input].kind = "nodir"
                   THEN /\ disk' = written
                        /\ Return("CreateFailed")
                   ELSE /\ disk' = [written EXCEPT
                                ![config.public_input] = PublicInputFile(strings)]
                        /\ Return("SUCCESS")
    /\ UNCHANGED <<command, config, local>>

NextProve ==
    \/ ProveCheckFiles
    \/ ProveParse
    \/ ProveDeserialize
    \/ ProveConnect
    \/ ProveFork
    \/ ProveKey
    \/ ProvePreprocess
    \/ ProveProve
    \/ ProveWrite

SpecProve == InitProve /\ [][NextProve]_vars

(***************************************************************************)
(* Properties of generate-proof.                                           *)
(***************************************************************************)
Proving == command = "GenerateProof"

\* The scheme parameters of a proving run are in the scheme's range: REP3 with
\* threshold 1, SHAMIR with 1 <= threshold < parties.
ValidProverParameters ==
    IF config.protocol = "REP3"
    THEN config.threshold = 1
    ELSE 1 <= config.threshold /\ config.threshold < config.network.parties

\* The run has performed a network operation.
TouchedNetwork ==
    \E k \in 1..Len(io) : io[k][2] = Network

\* C11: a proving run whose scheme parameters are outside the scheme's range
\* (REP3 with threshold other than 1, SHAMIR with a threshold violating
\* 1 <= threshold < parties) never connects to the network.
C11_InvalidParametersRejectedBeforeConnect ==
    Proving /\ ~ValidProverParameters =>
        /\ ~TouchedNetwork
        /\ local.net = "none"

(***************************************************************************)
(* The share codec: share and reconstruct for one field element.           *)
(***************************************************************************)
\* Share: the scheme, the owner party (1..N) and the payload.
Share(scheme, owner, payload) ==
    [scheme |-> scheme, owner |-> owner, payload |-> payload]

\* share(value, REP3, rng): the randomness is the two field elements a, b.
ShareValueRep3(value, a, b) ==
    {Share("REP3", p, Rep3Shares(value, a, b)[p]) : p \in 1..3}

\* share(value, SHAMIR, (T, N), rng): the randomness is the T further
\* coefficients of the polynomial.
ShareValueShamir(value, coeffs, num_parties) ==
    {Share("SHAMIR", p, ShamirShares(value, coeffs, num_parties)[p]) :
        p \in 1..num_parties}

\* The inverse of a field element other than 0.
FInv(x) == CHOOSE y \in Field : FMul(x, y) = 1

RECURSIVE FSum(_, _)
\* The sum of term[i] over the i of S.
FSum(term, S) ==
    IF S = {} THEN 0
    ELSE LET i == CHOOSE i \in S : TRUE
         IN  FAdd(term[i], FSum(term, S \ {i}))

RECURSIVE FProduct(_, _)
\* The product of factor[i] over the i of S.
FProduct(factor, S) ==
    IF S = {} THEN 1
    ELSE LET i == CHOOSE i \in S : TRUE
         IN  FMul(factor[i], FProduct(factor, S \ {i}))

\* The Lagrange coefficient of the point i among the points S, for the value
\* at 0.
LagrangeAtZero(i, S) ==
    FProduct([j \in S \ {i} |-> FMul(FSub(0, j), FInv(FSub(i, j)))], S \ {i})

\* The party after p of the three.
NextParty(p) == (p % 3) + 1

\* A plausible slip: the own parts of the parties present are summed, which
\* is the value only when all three are present.
ReconstructRep3OwnPartsOnly(shares) ==
    LET owners == {s.owner : s \in shares}
        of(p) == (CHOOSE s \in shares : s.owner = p).payload
    IN  IF Cardinality(owners) < 2
        THEN [err |-> "InsufficientShares", value |-> 0]
        ELSE [err |-> "none", value |-> FSum([p \in owners |-> of(p).a], owners)]

\* Two adjacent REP3 shares hold the three additive parts: a party's two and
\* the own part of the party after it.
ReconstructRep3(shares) ==
    LET owners == {s.owner : s \in shares}
        of(p) == (CHOOSE s \in shares : s.owner = p).payload
    IN  IF Cardinality(owners) < 2
        THEN [err |-> "InsufficientShares", value |-> 0]
        ELSE LET p == CHOOSE p \in owners : NextParty(p) \in owners
             IN  [err |-> "none",
                  value |-> FAdd(FAdd(of(p).a, of(p).b), of(NextParty(p)).a)]

\* A plausible slip: threshold shares are taken to be enough.
ReconstructShamirOffByOne(shares, threshold) ==
    LET owners == {s.owner : s \in shares}
        of(p) == (CHOOSE s \in shares : s.owner = p).payload
    IN  IF Cardinality(owners) < threshold
        THEN [err |-> "InsufficientShares", value |-> 0]
        ELSE [err |-> "none",
              value |-> FSum([i \in owners |-> FMul(of(i), LagrangeAtZero(i, owners))],
                             owners)]

\* Lagrange interpolation at 0 through the points of the shares present.
ReconstructShamir(shares, threshold) ==
    LET owners == {s.owner : s \in shares}
        of(p) == (CHOOSE s \in shares : s.owner = p).payload
    IN  IF Cardinality(owners) < threshold + 1
        THEN [err |-> "InsufficientShares", value |-> 0]
        ELSE [err |-> "none",
              value |-> FSum([i \in owners |-> FMul(of(i), LagrangeAtZero(i, owners))],
                             owners)]

\* reconstruct(shares): shares of different schemes, or two shares of one
\* party, are a mismatch; too few shares are insufficient.
Reconstruct(shares, threshold) ==
    IF \/ \E s1 \in shares, s2 \in shares : s1.scheme # s2.scheme
       \/ \E s1 \in shares, s2 \in shares : s1 # s2 /\ s1.owner = s2.owner
    THEN [err |-> "SchemeMismatch", value |-> 0]
    ELSE IF shares = {}
    THEN [err |-> "InsufficientShares", value |-> 0]
    ELSE IF \A s \in shares : s.scheme = "REP3"
    THEN ReconstructRep3(shares)
    ELSE ReconstructShamir(shares, threshold)

\* The preprocessed units one share takes from the pool when the target
\* threshold is 1 (num_pairs = shares.len()).
PairsPerShare == 1

\* A plausible slip: a party reshares both parts it holds, not its own part
\* only.
TranslateResharingBothParts(shares, pool) ==
    LET len == Len(shares[1])
        need == len * PairsPerShare
    IN  IF \E p \in 1..3 : Len(pool[p]) < need
        THEN [err |-> "RandomnessExhausted", shares |-> <<>>, pool |-> pool]
        ELSE [err |-> "none",
              shares |-> [q \in 1..3 |->
                            [k \in 1..len |->
                                FSum([p \in 1..3 |->
                                        FAdd(FAdd(shares[p][k].a, shares[p][k].b),
                                             FMul(pool[p][k], q))],
                                     1..3)]],
              pool |-> [p \in 1..3 |-> SubSeq(pool[p], need + 1, Len(pool[p]))]]

\* A plausible slip: the units are taken from the pool before the pool is
\* found too small.
TranslateConsumingFirst(shares, pool) ==
    LET len == Len(shares[1])
        need == len * PairsPerShare
        taken(p) == IF Len(pool[p]) < need THEN Len(pool[p]) ELSE need
    IN  IF \E p \in 1..3 : Len(pool[p]) < need
        THEN [err |-> "RandomnessExhausted", shares |-> <<>>,
              pool |-> [p \in 1..3 |-> SubSeq(pool[p], taken(p) + 1, Len(pool[p]))]]
        ELSE [err |-> "none",
              shares |-> [q \in 1..3 |->
                            [k \in 1..len |->
                                FSum([p \in 1..3 |->
                                        FAdd(shares[p][k].a, FMul(pool[p][k], q))],
                                     1..3)]],
              pool |-> [p \in 1..3 |-> SubSeq(pool[p], need + 1, Len(pool[p]))]]

\* translate_rep3_to_shamir for the three parties together.  shares[p] is the
\* vector of REP3 shares of party p and pool[p] its pool of units.  A pool
\* with fewer units than the shares need is refused with the pool as it was.
\* Otherwise party p reshares its own additive part of the k-th value with the
\* polynomial part + unit * X, and the Shamir share of party q is the sum of
\* the three polynomials at q; the units used leave the pool.
TranslateRep3ToShamir(shares, pool) ==
    LET len == Len(shares[1])
        need == len * PairsPerShare
    IN  IF \E p \in 1..3 : Len(pool[p]) < need
        THEN [err |-> "RandomnessExhausted", shares |-> <<>>, pool |-> pool]
        ELSE [err |-> "none",
              shares |-> [q \in 1..3 |->
                            [k \in 1..len |->
                                FSum([p \in 1..3 |->
                                        FAdd(shares[p][k].a, FMul(pool[p][k], q))],
                                     1..3)]],
              pool |-> [p \in 1..3 |-> SubSeq(pool[p], need + 1, Len(pool[p]))]]

InitCodec ==
    /\ command = "ShareCodec"
    /\ \E scheme \in MPCProtocol, t \in 0..MaxThreshold, n \in 1..MaxParties :
         /\ scheme = "REP3" => t = 1 /\ n = 3
         /\ config = [scheme |-> scheme, threshold |-> t, num_parties |-> n]
    /\ disk = <<>>
    /\ pc = "share"
    /\ \E value \in Field :
         local = [value |-> value, shares |-> {}, translated |-> {},
                  present |-> {}, result |-> [err |-> "none", value |-> 0]]
    /\ io = <<>>
    /\ exit = "running"

\* share(value, scheme, params, rng), for every randomness.
CodecShare ==
    /\ command = "ShareCodec"
    /\ pc = "share"
    /\ IF config.scheme = "REP3"
       THEN \E a \in Field, b \in Field :
              local' = [local EXCEPT !.shares = ShareValueRep3(local.value, a, b)]
       ELSE \E coeffs \in [1..config.threshold -> Field] :
              local' = [local EXCEPT
                  !.shares = ShareValueShamir(local.value, coeffs, config.num_parties)]
    /\ pc' = "shared"
    /\ UNCHANGED <<command, config, disk, io, exit>>

\* translate_rep3_to_shamir on the three REP3 shares of the value, each party
\* with a pool of one unit, for every content of the pools.
CodecTranslate ==
    /\ command = "ShareCodec"
    /\ pc = "shared"
    /\ config.scheme = "REP3"
    /\ \E units \in [1..3 -> Field] :
         LET of(p) == (CHOOSE s \in local.shares : s.owner = p).payload
             out == TranslateRep3ToShamir([p \in 1..3 |-> <<of(p)>>],
                                          [p \in 1..3 |-> <<units[p]>>])
         IN  local' = [local EXCEPT
                 !.translated = {Share("SHAMIR", q, out.shares[q][1]) : q \in 1..3}]
    /\ pc' = "translated"
    /\ UNCHANGED <<command, config, disk, io, exit>>

\* reconstruct(shares) on a choice of the shares at hand: some of the shares
\* of the sharing, some of the translated ones, or one of each.  The
\* translated shares are of threshold 1.
CodecReconstruct ==
    /\ command = "ShareCodec"
    /\ pc \in {"shared", "translated"}
    /\ \E present \in (SUBSET local.shares) \cup (SUBSET local.translated)
                        \cup {{s1, s2} : s1 \in local.shares, s2 \in local.translated} :
         LET threshold == IF present # {} /\ present \subseteq local.translated
                          THEN 1 ELSE config.threshold
             result == Reconstruct(present, threshold)
         IN  /\ local' = [local EXCEPT !.present = present, !.result = result]
             /\ exit' = IF result.err = "none" THEN "SUCCESS" ELSE result.err
    /\ pc' = "done"
    /\ UNCHANGED <<command, config, disk, io>>

NextCodec ==
    \/ CodecShare
    \/ CodecTranslate
    \/ CodecReconstruct

SpecCodec == InitCodec /\ [][NextCodec]_vars

(***************************************************************************)
(* Properties of the share codec.                                          *)
(***************************************************************************)
Codec == command = "ShareCodec"

\* REP3, or Shamir with 1 <= T < N.
SupportedScheme ==
    \/ config.scheme = "REP3"
    \/ 1 <= config.threshold /\ config.threshold < config.num_parties

\* reconstruct was applied to some of the shares of the sharing.
ReconstructedFromSharing ==
    Codec /\ pc = "done" /\ local.present \subseteq local.shares

\* reconstruct gave the value that was shared.
Exact == local.result = [err |-> "none", value |-> local.value]

\* C15: under REP3 and under Shamir with 1 <= T < N, for every value and
\* every sharing randomness, reconstruct applied to all the shares of
\* share(value) gives the value.
C15_ReconstructInvertsShare ==
    ReconstructedFromSharing /\ SupportedScheme /\ local.present = local.shares =>
        Exact /\ exit = "SUCCESS"

\* A value other than 0 was shared for three Shamir parties with threshold 2
\* and reconstructed from all three shares.
C15_Witness ==
    /\ ReconstructedFromSharing /\ local.present = local.shares
    /\ config = [scheme |-> "SHAMIR", threshold |-> 2, num_parties |-> 3]
    /\ local.value = 3 /\ local.result.value = 3

\* C16: under REP3, for every value and randomness, reconstruct gives the
\* value from each two of the three shares and from all three, and fails from
\* one share alone.
C16_Rep3TwoOfThree ==
    ReconstructedFromSharing /\ config.scheme = "REP3" =>
        /\ Cardinality(local.present) >= 2 => Exact
        /\ Cardinality(local.present) = 1 =>
             local.result.err = "InsufficientShares" /\ exit = "InsufficientShares"

\* The value 3 was reconstructed from the shares of parties 1 and 3.
C16_Witness ==
    /\ ReconstructedFromSharing /\ config.scheme = "REP3"
    /\ {s.owner : s \in local.present} = {1, 3}
    /\ local.value = 3 /\ Exact

\* C17: under Shamir with threshold T, reconstruct gives the value from every
\* T+1 or more of the shares, and fails with InsufficientShares, returning no
\* value, from every T or fewer.
C17_ShamirThreshold ==
    ReconstructedFromSharing /\ config.scheme = "SHAMIR" =>
        /\ Cardinality(local.present) >= config.threshold + 1 => Exact
        /\ Cardinality(local.present) <= config.threshold =>
             /\ local.result = [err |-> "InsufficientShares", value |-> 0]
             /\ exit = "InsufficientShares"

\* With threshold 1 and three parties, reconstruction from one share failed.
C17_Witness ==
    /\ ReconstructedFromSharing
    /\ config = [scheme |-> "SHAMIR", threshold |-> 1, num_parties |-> 3]
    /\ Cardinality(local.present) = 1
    /\ exit = "InsufficientShares"

\* The parties of the sharing.
CodecParties == {s.owner : s \in local.shares}

\* The randomness with which sharing v gives the parties of S the shares
\* they hold.
RandomnessGiving(v, S) ==
    IF config.scheme = "REP3"
    THEN {r \in Field \X Field :
            \A s \in local.shares :
                s.owner \in S => Rep3Shares(v, r[1], r[2])[s.owner] = s.payload}
    ELSE {coeffs \in [1..config.threshold -> Field] :
            \A s \in local.shares :
                s.owner \in S => EvalPoly(<<v>> \o coeffs, s.owner) = s.payload}

\* The largest number of parties that must learn nothing.
SecrecyThreshold == IF config.scheme = "REP3" THEN 1 ELSE config.threshold

\* C18: for every set of at most T parties (one party under REP3) and every
\* two secrets, the shares those parties hold arise from the one secret as
\* from the other, and from as many choices of the randomness: what the
\* parties see does not depend on the secret.
C18_ThresholdSecrecy ==
    Codec /\ pc = "shared" =>
        \A S \in SUBSET CodecParties :
            Cardinality(S) <= SecrecyThreshold =>
                LET ways == Cardinality(RandomnessGiving(local.value, S))
                IN  \A v \in Field \ {local.value} :
                        Cardinality(RandomnessGiving(v, S)) = ways

\* A value was shared for three Shamir parties with threshold 2, so that two
\* parties together must learn nothing.
C18_Witness ==
    /\ Codec /\ pc = "shared"
    /\ config = [scheme |-> "SHAMIR", threshold |-> 2, num_parties |-> 3]
    /\ local.value = 1

\* C19: for every value, every sharing randomness and every content of the
\* pools, reconstruct on two or three of the Shamir shares that the
\* translation of the three REP3 shares gives returns what reconstruct
\* returns on the REP3 shares.
C19_TranslationPreservesSecret ==
    Codec /\ pc = "done" /\ local.translated # {}
      /\ local.present \subseteq local.translated
      /\ Cardinality(local.present) >= 2 =>
        /\ local.result.err = "none"
        /\ local.result = Reconstruct(local.shares, config.threshold)

\* The value 4 was shared, translated, and reconstructed from the Shamir
\* shares of parties 2 and 3.
C19_Witness ==
    /\ Codec /\ pc = "done" /\ local.translated # {}
    /\ local.present \subseteq local.translated
    /\ {s.owner : s \in local.present} = {2, 3}
    /\ local.value = 4 /\ local.result.value = 4

(***************************************************************************)
(* The cross-scheme translator and its pool of preprocessed randomness.    *)
(***************************************************************************)
\* The largest pool a party is given.
MaxPool == 3

\* The largest number of calls on one pool.
MaxCalls == 2

\* The REP3 shares the three parties hold of a vector of values.
Rep3ShareVectors ==
    {[p \in 1..3 |-> ExtractShares(ShareRep3(Classify(w, {}), rng)[p])] :
        w \in UNION {[1..l -> WitnessValues] : l \in 0..MaxLen},
        rng \in Field}

InitTranslator ==
    /\ command = "TranslateRep3ToShamir"
    /\ config = [threshold |-> 1]
    /\ disk = <<>>
    /\ pc = "translate"
    /\ \E shares \in Rep3ShareVectors, size \in 0..MaxPool, seed \in Field :
         local = [shares |-> shares,
                  pool |-> [p \in 1..3 |-> RngDraws(FAdd(seed, p), size)],
                  translated |-> <<>>,
                  calls |-> 0]
    /\ io = <<>>
    /\ exit = "running"

\* One call of translate_rep3_to_shamir(shares, &mut pool) by the parties.
TranslatorCall ==
    /\ command = "TranslateRep3ToShamir"
    /\ pc = "translate"
    /\ local.calls < MaxCalls
    /\ LET out == TranslateRep3ToShamir(local.shares, local.pool)
       IN  IF out.err # "none"
           THEN /\ local' = [local EXCEPT !.pool = out.pool,
                                          !.calls = local.calls + 1]
                /\ Return(out.err)
           ELSE /\ local' = [local EXCEPT !.pool = out.pool,
                                          !.translated = out.shares,
                                          !.calls = local.calls + 1]
                /\ pc' = pc
                /\ exit' = exit
    /\ UNCHANGED <<command, config, disk, io>>

\* The caller is done with the pool.
TranslatorFinish ==
    /\ command = "TranslateRep3ToShamir"
    /\ pc = "translate"
    /\ Return("SUCCESS")
    /\ UNCHANGED <<command, config, disk, local, io>>

NextTranslator ==
    \/ TranslatorCall
    \/ TranslatorFinish

SpecTranslator == InitTranslator /\ [][NextTranslator]_vars

Translator == command = "TranslateRep3ToShamir"

\* Some party's pool has fewer units than the shares need.
PoolTooSmall ==
    \E p \in 1..3 : Len(local.pool[p]) < Len(local.shares[1]) * PairsPerShare

\* C20: a call of the translator on a pool with fewer units than its shares
\* need ends with RandomnessExhausted and leaves every party's pool, and the
\* shares translated before, as they were; a call on a pool that is large
\* enough does not fail.
C20_ExhaustedPoolIsUntouched ==
    [][Translator /\ local'.calls = local.calls + 1 =>
         IF PoolTooSmall
         THEN /\ exit' = "RandomnessExhausted"
              /\ local'.pool = local.pool
              /\ local'.translated = local.translated
         ELSE exit' = "running"]_vars

\* A second call for two shares failed on a pool of three units, of which
\* the first call had taken two: the one unit left is still there.
C20_Witness ==
    /\ Translator /\ exit = "RandomnessExhausted"
    /\ local.calls = 2
    /\ Len(local.shares[1]) = 2
    /\ \A p \in 1..3 : Len(local.pool[p]) = 1

(***************************************************************************)
(* The three party processes of one network-bearing stage                  *)
(* (generate-witness, translate-witness, generate-proof under SHAMIR): the *)
(* part of each handler from the connection to the output file.            *)
(***************************************************************************)
SessionParties == 1..3

NetworkStages == {"GenerateWitness", "TranslateWitness", "GenerateProof"}

\* The collective operations of a stage, in the order of its handler.
Steps(stage) ==
    CASE stage = "GenerateWitness" -> <<"connect", "solve">>
      [] stage = "TranslateWitness" -> <<"connect", "preprocess", "translate">>
      [] stage = "GenerateProof" -> <<"connect", "preprocess", "prove">>

\* The session parameters a party is started with.
SessionParams ==
    [parties : {3}, threshold : {1, MaxThreshold}, circuit : {"main", "other"}]

\* The units of the pool ShamirPreprocessing::new(t, net, num_pairs) gives
\* party p.
PoolOf(p, num_pairs) == {<<p, k>> : k \in 1..num_pairs}

\* The contribution of party p to a collective operation.
Contribution(step, p, params) == [step |-> step, from |-> p, params |-> params]

\* The contributions party p has from its peers for the operation it is in.
Received(p) ==
    {m \in io : m.step = local[p].step /\ m.from # p}

InitSession ==
    /\ command = "Session"
    /\ \E stage \in NetworkStages, num_pairs \in 0..MaxPool,
          params \in [SessionParties -> SessionParams] :
         /\ params[1] = [parties |-> 3, threshold |-> 1, circuit |-> "main"]
         /\ stage = "GenerateWitness" => num_pairs = 0
         /\ config = [stage |-> stage, num_pairs |-> num_pairs, params |-> params]
    /\ disk = [p \in SessionParties |-> Missing]
    /\ pc = [p \in SessionParties |-> "send"]
    /\ local = [p \in SessionParties |->
                  [step |-> 1, pool0 |-> {}, pool1 |-> {}, forked |-> FALSE,
                   used |-> <<>>]]
    /\ io = {}
    /\ exit = [p \in SessionParties |-> "running"]

\* Party p ends with an error.
SessionFail(p, code) ==
    /\ pc' = [pc EXCEPT ![p] = "done"]
    /\ exit' = [exit EXCEPT ![p] = code]

\* Party p enters a collective operation: it sends its contribution.
SessionSend(p) ==
    /\ command = "Session"
    /\ pc[p] = "send"
    /\ io' = io \cup {Contribution(local[p].step, p, config.params[p])}
    /\ pc' = [pc EXCEPT ![p] = "recv"]
    /\ UNCHANGED <<command, config, disk, local, exit>>

\* The n units of a pool with the lowest numbers (all of them when the pool
\* has fewer).
TakeUnits(pool, n) ==
    {u \in pool : Cardinality({v \in pool : v[2] < u[2]}) < n}

RECURSIVE UnitsInOrder(_)
\* The units of a set, by number.
UnitsInOrder(units) ==
    IF units = {} THEN <<>>
    ELSE LET u == CHOOSE u \in units : \A v \in units : u[2] <= v[2]
         IN  <<u>> \o UnitsInOrder(units \ {u})

\* protocol0.fork_with_pairs(n): the forked protocol is given n units, which
\* leave the pool of the protocol it is forked from.
ForkWithPairs(pool, n) ==
    [parent |-> pool \ TakeUnits(pool, n), child |-> TakeUnits(pool, n)]

\* A plausible slip: the forked protocol is a copy of the protocol, pool
\* included.
AfterStepCloningProtocol(p, step, taken) ==
    CASE step = "preprocess" ->
            LET pool == PoolOf(p, config.num_pairs)
            IN  IF config.stage = "GenerateProof"
                THEN [local[p] EXCEPT !.pool0 = pool, !.pool1 = pool,
                                      !.forked = TRUE, !.step = @ + 1]
                ELSE [local[p] EXCEPT !.pool0 = pool, !.step = @ + 1]
      [] step \in {"translate", "prove"} ->
            LET units0 == TakeUnits(local[p].pool0, taken)
                units1 == TakeUnits(local[p].pool1, 1)
            IN  [local[p] EXCEPT
                    !.pool0 = @ \ units0,
                    !.pool1 = @ \ units1,
                    !.used = @ \o UnitsInOrder(units0) \o UnitsInOrder(units1),
                    !.step = @ + 1]
      [] OTHER -> [local[p] EXCEPT !.step = @ + 1]

\* The state of party p after the operation `step` has completed.
\* preprocess: ShamirPreprocessing::new gives the pool to one protocol, which
\* generate-proof then forks with fork_with_pairs(0).  translate, prove: the
\* protocol takes `taken` units from its pool, and a forked protocol takes
\* one from its own if it has any.
AfterStep(p, step, taken) ==
    CASE step = "preprocess" ->
            LET pool == PoolOf(p, config.num_pairs)
                forked == ForkWithPairs(pool, 0)
            IN  IF config.stage = "GenerateProof"
                THEN [local[p] EXCEPT !.pool0 = forked.parent, !.pool1 = forked.child,
                                      !.forked = TRUE, !.step = @ + 1]
                ELSE [local[p] EXCEPT !.pool0 = pool, !.step = @ + 1]
      [] step \in {"translate", "prove"} ->
            LET units0 == TakeUnits(local[p].pool0, taken)
                units1 == TakeUnits(local[p].pool1, 1)
            IN  [local[p] EXCEPT
                    !.pool0 = @ \ units0,
                    !.pool1 = @ \ units1,
                    !.used = @ \o UnitsInOrder(units0) \o UnitsInOrder(units1),
                    !.step = @ + 1]
      [] OTHER -> [local[p] EXCEPT !.step = @ + 1]

\* A plausible slip: the peers' parameters are not looked at.
SessionReceiveNotComparing(p) ==
    /\ command = "Session"
    /\ pc[p] = "recv"
    /\ \A q \in SessionParties \ {p} : \E m \in Received(p) : m.from = q
    /\ LET steps == Steps(config.stage)
           step == steps[local[p].step]
       IN  /\ \E taken \in (IF step = "prove"
                            THEN 0..Cardinality(local[p].pool0)
                            ELSE {config.num_pairs}) :
                local' = [local EXCEPT ![p] = AfterStep(p, step, taken)]
           /\ pc' = [pc EXCEPT ![p] = IF local[p].step = Len(steps)
                                        THEN "write" ELSE "send"]
           /\ exit' = exit
    /\ UNCHANGED <<command, config, disk, io>>

\* A plausible slip: the contribution of one peer is enough to go on.
SessionReceiveFromAnyPeer(p) ==
    /\ command = "Session"
    /\ pc[p] = "recv"
    /\ \E q \in SessionParties \ {p} : \E m \in Received(p) : m.from = q
    /\ LET steps == Steps(config.stage)
           step == steps[local[p].step]
       IN  IF \E m \in Received(p) : m.params # config.params[p]
           THEN /\ SessionFail(p, "ProtocolAborted")
                /\ local' = local
           ELSE /\ \E taken \in (IF step = "prove"
                                 THEN 0..Cardinality(local[p].pool0)
                                 ELSE {config.num_pairs}) :
                     local' = [local EXCEPT ![p] = AfterStep(p, step, taken)]
                /\ pc' = [pc EXCEPT ![p] = IF local[p].step = Len(steps)
                                             THEN "write" ELSE "send"]
                /\ exit' = exit
    /\ UNCHANGED <<command, config, disk, io>>

\* Party p has the contributions of all its peers for the operation it is
\* in.  A peer that was started with other session parameters makes the
\* operation fail; otherwise the operation completes, and after the last one
\* the party goes on to write its output.
SessionReceive(p) ==
    /\ command = "Session"
    /\ pc[p] = "recv"
    /\ \A q \in SessionParties \ {p} : \E m \in Received(p) : m.from = q
    /\ LET steps == Steps(config.stage)
           step == steps[local[p].step]
       IN  IF \E m \in Received(p) : m.params # config.params[p]
           THEN /\ SessionFail(p, "ProtocolAborted")
                /\ local' = local
           ELSE /\ \E taken \in (IF step = "prove"
                                 THEN 0..Cardinality(local[p].pool0)
                                 ELSE {config.num_pairs}) :
                     local' = [local EXCEPT ![p] = AfterStep(p, step, taken)]
                /\ pc' = [pc EXCEPT ![p] = IF local[p].step = Len(steps)
                                             THEN "write" ELSE "send"]
                /\ exit' = exit
    /\ UNCHANGED <<command, config, disk, io>>

\* Party p waits for a peer that has ended without its contribution: the
\* operation fails.
SessionPeerLost(p) ==
    /\ command = "Session"
    /\ pc[p] = "recv"
    /\ \E q \in SessionParties \ {p} :
         /\ exit[q] # "running"
         /\ ~\E m \in Received(p) : m.from = q
    /\ SessionFail(p, "ProtocolAborted")
    /\ UNCHANGED <<command, config, disk, local, io>>

\* The process of party p is lost (its connection, or the process itself).
SessionDisconnect(p) ==
    /\ command = "Session"
    /\ pc[p] \in {"send", "recv"}
    /\ SessionFail(p, "NetworkError")
    /\ UNCHANGED <<command, config, disk, local, io>>

\* After the last operation: File::create(&out)?, the output is written,
\* Ok(SUCCESS).
SessionWrite(p) ==
    /\ command = "Session"
    /\ pc[p] = "write"
    /\ \E created \in BOOLEAN :
         IF created
         THEN /\ disk' = [disk EXCEPT ![p] = [kind |-> "Output", stage |-> config.stage]]
              /\ SessionFail(p, "SUCCESS")
         ELSE /\ disk' = disk
              /\ SessionFail(p, "CreateFailed")
    /\ UNCHANGED <<command, config, local, io>>

NextSession ==
    \E p \in SessionParties :
        \/ SessionSend(p)
        \/ SessionReceive(p)
        \/ SessionPeerLost(p)
        \/ SessionDisconnect(p)
        \/ SessionWrite(p)

SpecSession == InitSession /\ [][NextSession]_vars

(***************************************************************************)
(* Properties of the party processes.                                      *)
(***************************************************************************)
InSession == command = "Session"

\* The units of party p that some protocol of it still holds.
UnitsHeld(p) == local[p].pool0 \cup local[p].pool1

RunGenerateProof ==
    /\ command = "SplitWitness"
    /\ pc = "done"
    /\ \E id \in 0..(MaxParties - 1) :
         config' = [witness |-> SharePath(id), circuit |-> CircuitPath,
                    crs |-> CrsPath, protocol |-> config.protocol,
                    out |-> OutPath, public_input |-> None,
                    threshold |-> config.threshold,
                    network |-> [my_id |-> id, parties |-> config.num_parties]]
    /\ disk' = [p \in DOMAIN disk \cup {CrsPath, OutPath, PublicInputPath} |->
                   CASE p = CrsPath -> CrsFile
                     [] p \in {OutPath, PublicInputPath} -> Missing
                     [] OTHER -> disk[p]]
    /\ command' = "GenerateProof"
    /\ pc' = "check_files"
    /\ local' = [witness_file |-> "closed", constraint_system |-> <<>>,
                 witness_share |-> <<>>, net |-> "none", forks |-> 0,
                 circuit_size |-> 0, public_input |-> <<>>,
                 num_pairs |-> 0, proof |-> "none"]
    /\ io' = <<>>
    /\ exit' = "running"

NextSequence ==
    \/ NextSplit
    \/ RunGenerateProof
    \/ NextProve

SpecSequence == InitSplit /\ [][NextSequence]_vars

\* The witness share the proving run is given has not been produced.
WitnessShareMissing == Proving /\ disk[config.witness].kind = "missing"

\* C22: a proving run on a witness share file that no earlier stage has
\* produced makes no network operation, writes no proof, ends with the
\* missing-file error, and leaves the file missing: no step of the run
\* creates it.
C22_ProofBeforeWitnessFails ==
    /\ [](WitnessShareMissing =>
            /\ ~TouchedNetwork
            /\ local.net = "none"
            /\ local.proof = "none"
            /\ disk[OutPath].kind = "missing"
            /\ exit \in {"running", "FileNotFound"}
            /\ (pc = "done" => exit = "FileNotFound"))
    /\ [][WitnessShareMissing /\ command' = command =>
            disk'[config.witness].kind = "missing"]_vars

\* split-witness was refused for its parameters although its inputs were
\* there, and the proving run that followed found no witness share.
C22_Witness ==
    /\ WitnessShareMissing
    /\ pc = "done" /\ exit = "FileNotFound"
    /\ disk[WitnessPath].kind = "Witness" /\ disk[CircuitPath].kind = "Circuit"
    /\ disk[OutDir].kind = "dir"
    /\ config.protocol = "REP3" /\ config.threshold = 2

(***************************************************************************)
(* verify: run_verify                                                      *)
(***************************************************************************)
ProofPath == <<"proof", 0>>
VkPath == <<"vk", 0>>

\* the number of bytes of a proof buffer (its layout is fixed)
ProofLen == 3

\* A byte of a proof buffer or of a key (the values of the small field stand
\* for the 256 values of a byte).
Byte == Field

VkFile(key) == [kind |-> "Vk", data |-> key]

\* The last byte a verifier holding `key` accepts after `payload`: every
\* byte of the payload weighs in with an invertible coefficient.
RECURSIVE Digest(_, _)
Digest(key, payload) ==
    IF payload = <<>>
    THEN key
    ELSE (Digest(key, SubSeq(payload, 1, Len(payload) - 1))
            + Len(payload) * payload[Len(payload)]) % FieldModulus

\* HonkProof::from_buffer: a buffer decodes if and only if it has the
\* length of the layout.
ProofDecodes(buffer) == Len(buffer) = ProofLen

\* UltraHonk::verify(proof, vk) -> bool
Verify(proof, vk) ==
    proof[Len(proof)] = Digest(vk, SubSeq(proof, 1, Len(proof) - 1))

\* `tampered` is `proof` with exactly one byte changed.
SingleByteChanged(proof, tampered) ==
    /\ Len(tampered) = Len(proof)
    /\ \E i \in 1..Len(proof) :
         /\ tampered[i] # proof[i]
         /\ \A j \in 1..Len(proof) : j # i => tampered[j] = proof[j]

ProofBuffers == UNION {[1..n -> Byte] : n \in {ProofLen - 1, ProofLen}}

InitVerify ==
    /\ command = "Verify"
    /\ config = [proof |-> ProofPath, vk |-> VkPath, crs |-> CrsPath]
    /\ \E proof \in {Missing} \cup {ProofFile(b) : b \in ProofBuffers},
          vk \in {Missing, Garbage} \cup {VkFile(k) : k \in 0..1},
          crs \in {Missing, Garbage, CrsFile} :
         disk = [p \in {ProofPath, VkPath, CrsPath} |->
                    CASE p = ProofPath -> proof
                      [] p = VkPath -> vk
                      [] OTHER -> crs]
    /\ pc = "check_files"
    /\ local = [proof |-> <<>>, crs |-> "none", vk |-> "none", res |-> "none"]
    /\ io = <<>>
    /\ exit = "running"

\* check_file_exists(&proof)?; check_file_exists(&vk_path)?;
\* check_file_exists(&crs_path)?
VerifyCheckFiles ==
    /\ command = "Verify"
    /\ pc = "check_files"
    /\ LET paths == <<config.proof, config.vk, config.crs>>
           bad == FirstIndex([i \in 1..Len(paths) |-> disk[paths[i]].kind = "missing"])
       IN  IF bad <= Len(paths)
           THEN /\ io' = io \o OpsOn("exists", paths, bad)
                /\ Return("FileNotFound")
           ELSE /\ io' = io \o OpsOn("exists", paths, Len(paths))
                /\ pc' = "parse_proof"
                /\ exit' = exit
    /\ UNCHANGED <<command, config, disk, local>>

\* std::fs::read(&proof)?; HonkProof::from_buffer(&proof_u8)?
VerifyParseProof ==
    /\ command = "Verify"
    /\ pc = "parse_proof"
    /\ io' = Append(io, Op("read", config.proof))
    /\ IF ProofDecodes(disk[config.proof].data)
       THEN /\ local' = [local EXCEPT !.proof = disk[config.proof].data]
            /\ pc' = "crs"
            /\ exit' = exit
       ELSE /\ local' = local
            /\ Return("DecodeError")
    /\ UNCHANGED <<command, config, disk>>

\* VerifyingKey::get_verifier_crs(..).expect("failed to get verifier crs")
VerifyCrs ==
    /\ command = "Verify"
    /\ pc = "crs"
    /\ io' = Append(io, Op("read", config.crs))
    /\ IF disk[config.crs].kind # "Crs"
       THEN /\ local' = local
            /\ Return("panic")
       ELSE /\ local' = [local EXCEPT !.crs = "Crs"]
            /\ pc' = "parse_vk"
            /\ exit' = exit
    /\ UNCHANGED <<command, config, disk>>

\* std::fs::read(&vk_path)?; VerifyingKeyBarretenberg::from_buffer(&vk_u8)?
VerifyParseVk ==
    /\ command = "Verify"
    /\ pc = "parse_vk"
    /\ io' = Append(io, Op("read", config.vk))
    /\ IF disk[config.vk].kind = "Vk"
       THEN /\ local' = [local EXCEPT !.vk = disk[config.vk].data]
            /\ pc' = "verify"
            /\ exit' = exit
       ELSE /\ local' = local
            /\ Return("DecodeError")
    /\ UNCHANGED <<command, config, disk>>

\* A plausible slip: a false result leaves through the error path.
VerifyVerifyFalseAsError ==
    /\ command = "Verify"
    /\ pc = "verify"
    /\ LET res == Verify(local.proof, local.vk)
       IN  /\ local' = [local EXCEPT !.res = IF res THEN "true" ELSE "false"]
           /\ Return(IF res THEN "SUCCESS" ELSE "VerificationFailed")
    /\ UNCHANGED <<command, config, disk, io>>

\* let res = UltraHonk::verify(proof, vk)?;
\* if res { Ok(ExitCode::SUCCESS) } else { Ok(ExitCode::FAILURE) }
VerifyVerify ==
    /\ command = "Verify"
    /\ pc = "verify"
    /\ LET res == Verify(local.proof, local.vk)
       IN  /\ local' = [local EXCEPT !.res = IF res THEN "true" ELSE "false"]
           /\ Return(IF res THEN "SUCCESS" ELSE "FAILURE")
    /\ UNCHANGED <<command, config, disk, io>>

NextVerify ==
    \/ VerifyCheckFiles
    \/ VerifyParseProof
    \/ VerifyCrs
    \/ VerifyParseVk
    \/ VerifyVerify

SpecVerify == InitVerify /\ [][NextVerify]_vars

Verifying == command = "Verify"

\* The exit status of the process for what the handler returned or did:
\* main returns the handler's Result<ExitCode>; Ok(code) exits with code,
\* Err(report) prints the report and exits with ExitCode::FAILURE, a panic
\* exits with 101.
ExitStatus(outcome) ==
    CASE outcome = "SUCCESS" -> 0
      [] outcome = "FAILURE" -> 1
      [] outcome = "panic" -> 101
      [] OTHER -> 1

\* C23: a finished verify run exits with the success code exactly when the
\* verifier returned true, with the failure code exactly when the verifier
\* returned false, and with neither of the two when the verifier gave no
\* result.
C23_VerifyHasThreeExitCodes ==
    Verifying /\ pc = "done" =>
        /\ ExitStatus(exit) = ExitStatus("SUCCESS") <=> local.res = "true"
        /\ ExitStatus(exit) = ExitStatus("FAILURE") <=> local.res = "false"
        /\ local.res = "none" =>
             ExitStatus(exit) \notin {ExitStatus("SUCCESS"), ExitStatus("FAILURE")}

\* The proof file is a proof the verifier accepts under the key of the key
\* file, with one byte changed.
TamperedProofOnDisk ==
    /\ Verifying
    /\ disk[config.proof].kind = "Proof" /\ disk[config.vk].kind = "Vk"
    /\ disk[config.crs].kind = "Crs"
    /\ \E valid \in [1..ProofLen -> Byte] :
         /\ Verify(valid, disk[config.vk].data)
         /\ SingleByteChanged(valid, disk[config.proof].data)

RECURSIVE Decimal(_)
Decimal(n) ==
    IF n < 10 THEN DecimalDigit[n + 1]
    ELSE Decimal(n \div 10) \o DecimalDigit[(n % 10) + 1]

\* The run has ended well and was asked for the listing.
ListingWritten ==
    /\ Proving
    /\ pc = "done" /\ exit = "SUCCESS"
    /\ config.public_input # None

\* C25: the listing a successful generate-proof run has written has one
\* entry for each public input of the circuit, in the circuit's order: the
\* k-th entry is "0" exactly when the witness value at the k-th public input
\* is zero, and the decimal numeral of that value otherwise.
C25_PublicInputListing ==
    ListingWritten =>
        /\ disk[config.public_input].kind = "PublicInputs"
        /\ LET listing == disk[config.public_input].data
               indices == disk[config.circuit].public_inputs
               share == disk[config.witness].data
           IN  /\ Len(listing) = Len(indices)
               /\ \A k \in 1..Len(indices) :
                    LET value == share[indices[k] + 1].value
                    IN  /\ listing[k] = "0" <=> value = 0
                        /\ value # 0 => listing[k] = Decimal(value)

\* a listing of two entries, a zero before a value that is not zero
C25_Witness ==
    /\ ListingWritten
    /\ disk[config.public_input].kind = "PublicInputs"
    /\ disk[config.public_input].data = <<"0", "1">>

(***************************************************************************)
(* split-input: run_split_input                                            *)
(***************************************************************************)
CleartextInputPath == <<"input", 0>>

CleartextInputFile(inputs) == [kind |-> "Inputs", data |-> inputs]

\* The cleartext inputs a file may hold: values for some of the names.
CleartextInputs == UNION {[K -> WitnessValues] : K \in SUBSET KeySet}

\* The place of a name in the order of the names.
NameIndex(k) == CHOOSE i \in 1..Len(WitnessNames) : WitnessNames[i] = k

\* The number of names of a map before the name k, in the map's order.
NamesBefore(inputs, k) ==
    Cardinality({n \in DOMAIN inputs : NameIndex(n) < NameIndex(k)})

\* share_input_rep3: one map per party; every input is shared with two fresh
\* draws, in the order of the names.
ShareInputRep3(inputs, rng) ==
    [p \in 1..3 |->
        [k \in DOMAIN inputs |->
            LET r == RngDraws(RngSkip(rng, 2 * NamesBefore(inputs, k)), 2)
            IN  Rep3Shares(inputs[k], r[1], r[2])[p]]]

InitSplitInput ==
    /\ command = "SplitInput"
    /\ \E protocol \in MPCProtocol :
         config = [input |-> CleartextInputPath, circuit |-> CircuitPath,
                   protocol |-> protocol, out_dir |-> OutDir]
    /\ \E ifile \in {Missing, Garbage} \cup {CleartextInputFile(m) : m \in CleartextInputs},
          cfile \in {Missing, Garbage, CircuitFile(<<>>)},
          dir \in {Missing, Dir, ReadOnlyDir} :
         disk = [p \in {CleartextInputPath, CircuitPath, OutDir}
                        \cup {SharePath(i) : i \in 0..MaxParties} |->
                    CASE p = CleartextInputPath -> ifile
                      [] p = CircuitPath -> cfile
                      [] p = OutDir -> dir
                      [] OTHER -> Missing]
    /\ pc = "validate"
    /\ local = [inputs |-> <<>>, shared |-> FALSE, shares |-> <<>>]
    /\ io = <<>>
    /\ exit = "running"

\* if protocol != MPCProtocol::REP3 { return Err(..) }
SplitInputValidate ==
    /\ command = "SplitInput"
    /\ pc = "validate"
    /\ IF config.protocol # "REP3"
       THEN Return("UnsupportedProtocol")
       ELSE pc' = "check_files" /\ exit' = exit
    /\ UNCHANGED <<command, config, disk, local, io>>

\* check_file_exists(&input)?; check_file_exists(&circuit_path)?;
\* check_dir_exists(&out_dir)?
SplitInputCheckFiles ==
    /\ command = "SplitInput"
    /\ pc = "check_files"
    /\ LET paths == <<config.input, config.circuit, config.out_dir>>
           bad == FirstIndex([i \in 1..Len(paths) |-> disk[paths[i]].kind = "missing"])
       IN  IF bad <= Len(paths)
           THEN /\ io' = io \o OpsOn("exists", paths, bad)
                /\ Return("FileNotFound")
           ELSE /\ io' = io \o OpsOn("exists", paths, Len(paths))
                /\ pc' = "parse"
                /\ exit' = exit
    /\ UNCHANGED <<command, config, disk, local>>

\* get_program_artifact_from_file(&circuit_path)?, then
\* partially_read_abi_bn254_fieldelement(&input, &compiled_program.abi)?
SplitInputParse ==
    /\ command = "SplitInput"
    /\ pc = "parse"
    /\ IF disk[config.circuit].kind # "Circuit"
       THEN /\ io' = Append(io, Op("read", config.circuit))
            /\ Return("DecodeError")
            /\ local' = local
       ELSE IF disk[config.input].kind # "Inputs"
       THEN /\ io' = io \o <<Op("read", config.circuit), Op("read", config.input)>>
            /\ Return("DecodeError")
            /\ local' = local
       ELSE /\ io' = io \o <<Op("read", config.circuit), Op("read", config.input)>>
            /\ local' = [local EXCEPT !.inputs = disk[config.input].data]
            /\ pc' = "share"
            /\ exit' = exit
    /\ UNCHANGED <<command, config, disk>>

\* thread_rng(), share_input_rep3(inputs, &mut rng)
SplitInputShare ==
    /\ command = "SplitInput"
    /\ pc = "share"
    /\ \E rng \in Field :
         local' = [local EXCEPT !.shared = TRUE,
                                !.shares = ShareInputRep3(local.inputs, rng)]
    /\ pc' = "write"
    /\ UNCHANGED <<command, config, disk, io, exit>>

\* for (i, share) in shares.iter().enumerate(): File::create(&path)?,
\* serialize_into; then Ok(SUCCESS)
SplitInputWrite ==
    /\ command = "SplitInput"
    /\ pc = "write"
    /\ LET shares == local.shares
           paths == [i \in 1..Len(shares) |-> SharePath(i - 1)]
       IN  IF disk[config.out_dir].kind # "dir"
           THEN /\ io' = Append(io, Op("create", paths[1]))
                /\ Return("CreateFailed")
                /\ disk' = disk
           ELSE /\ io' = io \o OpsOn("create", paths, Len(paths))
                /\ disk' = [p \in DOMAIN disk |->
                              IF \E i \in 1..Len(shares) : p = paths[i]
                              THEN ShareMapFile(shares[p[2] + 1])
                              ELSE disk[p]]
                /\ Return("SUCCESS")
    /\ UNCHANGED <<command, config, local>>

NextSplitInput ==
    \/ SplitInputValidate
    \/ SplitInputCheckFiles
    \/ SplitInputParse
    \/ SplitInputShare
    \/ SplitInputWrite

\* The two splitting subcommands.
InitSplits == InitSplit \/ InitSplitInput

NextSplits ==
    \/ NextSplit
    \/ NextSplitInput

SpecSplits == InitSplits /\ [][NextSplits]_vars

\* A splitting run has ended well.
SplitSucceeded ==
    /\ command \in {"SplitWitness", "SplitInput"}
    /\ pc = "done" /\ exit = "SUCCESS"

\* The files a run has created, in the order of their creation.
Created == SelectSeq(io, LAMBDA op : op[1] = "create")

\* C26: a splitting run that has ended well has created the share files
\* numbered 0 to N - 1, each once and no other file, N being 3 under REP3 and
\* the configured number of parties under Shamir; file i holds the i-th
\* output of the sharing, which under REP3 carries as its second part the
\* first part of the file before it; the share paths from N on are as before.
C26_OneShareFilePerParty ==
    SplitSucceeded =>
        LET N == IF config.protocol = "REP3" THEN 3 ELSE config.num_parties
        IN  /\ Created = [i \in 1..N |-> Op("create", SharePath(i - 1))]
            /\ Len(local.shares) = N
            /\ \A i \in 0..(N - 1) :
                 /\ disk[SharePath(i)].kind
                      = (IF command = "SplitInput" THEN "NamedShareMap" ELSE "WitnessShare")
                 /\ disk[SharePath(i)].data = local.shares[i + 1]
            /\ config.protocol = "REP3" =>
                 \A i \in 0..2 :
                    LET mine == disk[SharePath(i)].data
                        before == disk[SharePath((i + 2) % 3)].data
                    IN  IF command = "SplitInput"
                        THEN \A k \in DOMAIN mine : mine[k].b = before[k].a
                        ELSE \A j \in 1..Len(mine) :
                               mine[j].tag = "Shared" => mine[j].share.b = before[j].share.a
            /\ \A p \in DOMAIN disk :
                 p[1] = "share" /\ p[2] >= N => disk[p] = Missing

\* split-witness has written two Shamir files of a witness with a private
\* slot
C26_Witness ==
    /\ SplitSucceeded
    /\ command = "SplitWitness"
    /\ config.protocol = "SHAMIR" /\ config.num_parties = 2
    /\ Len(local.witness) = 2 /\ local.witness[2].tag = "Shared"
    /\ disk[SharePath(1)].kind = "WitnessShare"
    /\ disk[SharePath(2)] = Missing

\* split-input has written three files of two inputs
SplitInputWroteThreeFiles ==
    /\ SplitSucceeded
    /\ command = "SplitInput"
    /\ DOMAIN local.inputs = {"x", "y"}
    /\ disk[SharePath(2)].kind = "NamedShareMap"
    /\ disk[SharePath(0)].data # disk[SharePath(1)].data

(***************************************************************************)
(* generate-witness: run_generate_witness                                  *)
(***************************************************************************)
InputSharePath == <<"input_share", 0>>

\* The merged input shares a party may hold: shares for some of the names.
InputShareMaps == {ContributorMap(0, K) : K \in SUBSET KeySet}

\* The witness share the solver gives a party: one share per input and one
\* per value it derives, opaque to the handler.
SolvedWitnessShare(input_share, derived) ==
    [j \in 1..(Len(input_share) + derived) |->
        IF j <= Len(input_share)
        THEN BuilderShared(input_share[j][2])
        ELSE BuilderShared(<<"derived", j>>)]

InitWitgen ==
    /\ command = "GenerateWitness"
    /\ \E protocol \in MPCProtocol, id \in 0..2 :
         config = [input |-> InputSharePath, circuit |-> CircuitPath,
                   protocol |-> protocol, out |-> OutPath,
                   network |-> [my_id |-> id]]
    /\ \E ifile \in {Missing, Garbage} \cup {ShareMapFile(m) : m \in InputShareMaps},
          cfile \in {Missing, Garbage, CircuitFile(<<>>)},
          outfile \in {Missing, NoDir} :
         disk = [p \in {InputSharePath, CircuitPath, OutPath} |->
                    CASE p = InputSharePath -> ifile
                      [] p = CircuitPath -> cfile
                      [] OTHER -> outfile]
    /\ pc = "validate"
    /\ local = [input_share |-> <<>>, net |-> "none", result_witness_share |-> <<>>]
    /\ io = <<>>
    /\ exit = "running"

\* A plausible slip: the input file is checked before the protocol.
WitgenValidateAfterExists ==
    /\ command = "GenerateWitness"
    /\ pc = "validate"
    /\ io' = Append(io, Op("exists", config.input))
    /\ IF disk[config.input].kind = "missing"
       THEN Return("FileNotFound")
       ELSE IF config.protocol # "REP3"
       THEN Return("UnsupportedProtocol")
       ELSE pc' = "check_files" /\ exit' = exit
    /\ UNCHANGED <<command, config, disk, local>>

\* if protocol != MPCProtocol::REP3 { return Err(..) }
WitgenValidate ==
    /\ command = "GenerateWitness"
    /\ pc = "validate"
    /\ IF config.protocol # "REP3"
       THEN Return("UnsupportedProtocol")
       ELSE pc' = "check_files" /\ exit' = exit
    /\ UNCHANGED <<command, config, disk, local, io>>

\* check_file_exists(&input)?; check_file_exists(&circuit_path)?
WitgenCheckFiles ==
    /\ command = "GenerateWitness"
    /\ pc = "check_files"
    /\ LET paths == <<config.input, config.circuit>>
           bad == FirstIndex([i \in 1..Len(paths) |-> disk[paths[i]].kind = "missing"])
       IN  IF bad <= Len(paths)
           THEN /\ io' = io \o OpsOn("exists", paths, bad)
                /\ Return("FileNotFound")
           ELSE /\ io' = io \o OpsOn("exists", paths, Len(paths))
                /\ pc' = "parse"
                /\ exit' = exit
    /\ UNCHANGED <<command, config, disk, local>>

\* get_program_artifact_from_file(&circuit_path)?, File::open(&input)?,
\* bincode::deserialize_from(input_share_file)?,
\* translate_witness_share_rep3(input_share, &compiled_program.abi)?
WitgenParse ==
    /\ command = "GenerateWitness"
    /\ pc = "parse"
    /\ IF disk[config.circuit].kind # "Circuit"
       THEN /\ io' = Append(io, Op("read", config.circuit))
            /\ Return("DecodeError")
            /\ local' = local
       ELSE IF disk[config.input].kind # "NamedShareMap"
       THEN /\ io' = io \o <<Op("read", config.circuit), Op("read", config.input)>>
            /\ Return("DecodeError")
            /\ local' = local
       ELSE /\ io' = io \o <<Op("read", config.circuit), Op("read", config.input)>>
            /\ local' = [local EXCEPT !.input_share = IntoIter(disk[config.input].data)]
            /\ pc' = "connect"
            /\ exit' = exit
    /\ UNCHANGED <<command, config, disk>>

\* Rep3MpcNet::new(config.network)?: the connection to the peers is made or
\* fails.
WitgenConnect ==
    /\ command = "GenerateWitness"
    /\ pc = "connect"
    /\ io' = Append(io, Op("connect", Network))
    /\ \E connected \in BOOLEAN :
         IF connected
         THEN /\ local' = [local EXCEPT !.net = "rep3"]
              /\ pc' = "solve"
              /\ exit' = exit
         ELSE /\ local' = local
              /\ Return("NetworkError")
    /\ UNCHANGED <<command, config, disk>>

\* Rep3CoSolver::from_network_with_witness(..)?, rep3_vm.solve()?,
\* convert_witness_to_vec_rep3: the rounds of the solver, which complete with
\* a witness share or fail.
WitgenSolve ==
    /\ command = "GenerateWitness"
    /\ pc = "solve"
    /\ io' = Append(io, Op("solve", Network))
    /\ \E completed \in BOOLEAN, derived \in 0..1 :
         IF completed
         THEN /\ local' = [local EXCEPT
                      !.result_witness_share =
                           SolvedWitnessShare(local.input_share, derived)]
              /\ pc' = "write"
              /\ exit' = exit
         ELSE /\ local' = local
              /\ Return("ProtocolAborted")
    /\ UNCHANGED <<command, config, disk>>

\* File::create(&out)?, serialize_into(out_file, &result_witness_share)?,
\* Ok(SUCCESS)
WitgenWrite ==
    /\ command = "GenerateWitness"
    /\ pc = "write"
    /\ io' = Append(io, Op("create", config.out))
    /\ IF disk[config.out].kind = "nodir"
       THEN /\ Return("CreateFailed")
            /\ disk' = disk
       ELSE /\ disk' = [disk EXCEPT
                    ![config.out] = WitnessShareFile(local.result_witness_share)]
            /\ Return("SUCCESS")
    /\ UNCHANGED <<command, config, local>>

NextWitgen ==
    \/ WitgenValidate
    \/ WitgenCheckFiles
    \/ WitgenParse
    \/ WitgenConnect
    \/ WitgenSolve
    \/ WitgenWrite

SpecWitgen == InitWitgen /\ [][NextWitgen]_vars

(***************************************************************************)
(* The stages that talk to the peers.                                      *)
(***************************************************************************)
InitNetworkStage == InitWitgen \/ InitTranslate \/ InitProve

NextNetworkStage ==
    \/ NextWitgen
    \/ NextTranslate
    \/ NextProve

SpecNetworkStage == InitNetworkStage /\ [][NextNetworkStage]_vars

\* The run has ended because the connection or a round failed.
NetworkFailure == exit \in {"NetworkError", "ProtocolAborted"}

\* The paths a stage writes its results to.
OutputPaths == DOMAIN disk \cap {OutPath, PublicInputPath}

\* The operation that ends the stage's rounds with the peers.
LastRound ==
    CASE command = "GenerateWitness" -> "solve"
      [] command = "TranslateWitness" -> "translate"
      [] OTHER -> "prove"

\* C27: a network stage whose connection or round fails has ended for good
\* and has created no file, so that its output paths hold no result; a stage
\* creates a file only when its last round with the peers has been run and
\* has completed, no operation on the network follows the creation of a
\* file, and no step is taken from a run that has ended.
C27_NoPartialResult ==
    /\ [](command \in NetworkStages =>
            /\ NetworkFailure =>
                 /\ pc = "done"
                 /\ Created = <<>>
                 /\ \A p \in OutputPaths : disk[p].kind \in {"missing", "nodir"}
            /\ \A p \in OutputPaths :
                 disk[p].kind \notin {"missing", "nodir"} =>
                    /\ ~NetworkFailure
                    /\ Created # <<>>
            /\ \A k \in 1..Len(io) :
                 io[k][1] = "create" =>
                    /\ \E j \in 1..(k - 1) : io[j] = Op(LastRound, Network)
                    /\ \A l \in (k + 1)..Len(io) : io[l][2] # Network
                    /\ exit \in {"SUCCESS", "CreateFailed"})
    /\ [][pc # "done"]_vars

\* the prover's rounds failed after the connection and the preprocessing
C27_Witness ==
    /\ command = "GenerateProof"
    /\ config.protocol = "SHAMIR"
    /\ exit = "ProtocolAborted"
    /\ io[Len(io)] = Op("prove", Network)
    /\ config.out = OutPath /\ disk[OutPath].kind = "missing"

(***************************************************************************)
(* The collective rounds of the party processes.                           *)
(***************************************************************************)
\* The rounds party p has gone past.
RoundsPassed(p) == 1..(local[p].step - 1)

\* Party p has completed the stage: it is writing or has written its output.
StageCompleted(p) == pc[p] = "write" \/ exit[p] \in {"SUCCESS", "CreateFailed"}

\* C28: in every interleaving, for every round a party has gone past, its
\* own contribution to that round and the contribution of every peer have
\* been sent; a party that has completed the stage has gone past every
\* round of the stage; and a party cannot go past the round it is in before
\* it has sent its contribution.
C28_RoundsAreCollective ==
    InSession =>
        \A p \in SessionParties :
            /\ \A r \in RoundsPassed(p) :
                 \A q \in SessionParties : \E m \in io : m.step = r /\ m.from = q
            /\ StageCompleted(p) => local[p].step = Len(Steps(config.stage)) + 1
            /\ ~StageCompleted(p) => local[p].step <= Len(Steps(config.stage))
            /\ pc[p] = "recv" =>
                 Contribution(local[p].step, p, config.params[p]) \in io

\* one party has completed the stage while a peer, whose contribution to the
\* last round it has, is still waiting in that round
C28_Witness ==
    /\ InSession
    /\ StageCompleted(1)
    /\ pc[2] = "recv" /\ local[2].step = Len(Steps(config.stage))
    /\ pc[3] = "done" /\ exit[3] = "NetworkError"

\* The parties were not all started with the same session parameters.
ParametersMismatch ==
    \E p \in SessionParties, q \in SessionParties : config.params[p] # config.params[q]

InitMergeAnyOut ==
    /\ command = "MergeInputShares"
    /\ \E n \in 0..MaxInputs, protocol \in MPCProtocol :
         /\ \E out \in {OutPath} \cup {InputPath(i) : i \in 1..n} :
              config = [inputs |-> [i \in 1..n |-> InputPath(i)],
                        protocol |-> protocol,
                        out |-> out]
         /\ \E outfile \in {Missing, NoDir} :
            \E files \in [1..n -> InputStates] :
              disk = [p \in {InputPath(i) : i \in 1..n} \cup {OutPath} |->
                         IF p = OutPath THEN outfile ELSE InputFile(p[2], files[p[2]])]
    /\ pc = "validate"
    /\ local = [input_shares |-> <<>>, pending |-> <<>>, result |-> <<>>]
    /\ io = <<>>
    /\ exit = "running"

InitTranslateAnyOut ==
    /\ command = "TranslateWitness"
    /\ \E src \in MPCProtocol, target \in MPCProtocol, id \in 0..2,
          out \in {OutPath, WitnessSharePath} :
         /\ config = [witness |-> WitnessSharePath, src_protocol |-> src,
                      target_protocol |-> target, out |-> out,
                      network |-> [my_id |-> id]]
         /\ \E file \in {Missing, Garbage}
                        \cup {WitnessShareFile(ws) : ws \in Rep3WitnessShares(id)},
               outfile \in {Missing, NoDir} :
              disk = [p \in {WitnessSharePath, OutPath} |->
                         IF p = OutPath THEN outfile ELSE file]
    /\ pc = "validate"
    /\ local = [witness_share |-> <<>>, shares |-> <<>>, net |-> "none",
                threshold |-> 0, num_pairs |-> 0,
                translated_shares |-> <<>>, result |-> <<>>]
    /\ io = <<>>
    /\ exit = "running"

InitWitgenAnyOut ==
    /\ command = "GenerateWitness"
    /\ \E protocol \in MPCProtocol, id \in 0..2,
          out \in {OutPath, InputSharePath, CircuitPath} :
         config = [input |-> InputSharePath, circuit |-> CircuitPath,
                   protocol |-> protocol, out |-> out,
                   network |-> [my_id |-> id]]
    /\ \E ifile \in {Missing, Garbage} \cup {ShareMapFile(m) : m \in InputShareMaps},
          cfile \in {Missing, Garbage, CircuitFile(<<>>)},
          outfile \in {Missing, NoDir} :
         disk = [p \in {InputSharePath, CircuitPath, OutPath} |->
                    CASE p = InputSharePath -> ifile
                      [] p = CircuitPath -> cfile
                      [] OTHER -> outfile]
    /\ pc = "validate"
    /\ local = [input_share |-> <<>>, net |-> "none", result_witness_share |-> <<>>]
    /\ io = <<>>
    /\ exit = "running"

InitAnyPaths == InitMergeAnyOut \/ InitTranslateAnyOut \/ InitWitgenAnyOut

NextAnyPaths ==
    \/ NextMerge
    \/ NextTranslate
    \/ NextWitgen

SpecAnyPaths == InitAnyPaths /\ [][NextAnyPaths]_vars

\* The files a stage is given as its inputs.
DeclaredInputs ==
    CASE command = "MergeInputShares" -> {config.inputs[i] : i \in 1..Len(config.inputs)}
      [] command = "SplitWitness" -> {config.witness, config.circuit}
      [] command = "SplitInput" -> {config.input, config.circuit}
      [] command = "GenerateWitness" -> {config.input, config.circuit}
      [] command = "TranslateWitness" -> {config.witness}
      [] command = "GenerateProof" -> {config.witness, config.circuit, config.crs}
      [] command = "Verify" -> {config.proof, config.vk, config.crs}
      [] OTHER -> {}

\* C30: no step of a stage changes the content of a file the stage was given
\* as an input, whatever paths it was given, so that each input file holds
\* after the stage what it held before.
C30_InputsUnchanged ==
    [][command' = command => \A p \in DeclaredInputs : disk'[p] = disk[p]]_vars

(***************************************************************************)
(* How a stage ends.                                                       *)
(***************************************************************************)
\* The typed results a handler returns: Ok(ExitCode) or Err(report).
TypedResults ==
    {"SUCCESS", "FAILURE", "FileNotFound", "DecodeError", "CreateFailed",
     "InvalidSchemeParameters", "UnsupportedProtocol", "UnsupportedTranslation",
     "TooFewContributors", "DuplicateShareKey", "IndexOutOfBounds",
     "NetworkError", "ProtocolAborted"}

\* C31: a stage that has ended has returned a typed result to its caller: it
\* has not ended by a panic.
C31_FailuresAreTypedErrors ==
    pc = "done" => exit \in TypedResults

(***************************************************************************)
(* The output of merge-input-shares.                                       *)
(***************************************************************************)
\* The ways a merge fails before it writes.
MergeFailures ==
    {"UnsupportedProtocol", "TooFewContributors", "FileNotFound", "DecodeError",
     "DuplicateShareKey"}

\* C32: a merge that has failed has created no file and its output path
\* holds what it held before the run (nothing); the output file is created
\* only when every input has been read and every pair of every input has
\* been inserted without a collision, and it holds a map only after a
\* successful run.
C32_MergeOutputAllOrNothing ==
    Merging =>
        /\ exit \in MergeFailures =>
             /\ Created = <<>>
             /\ disk[config.out].kind \in {"missing", "nodir"}
        /\ Created # <<>> =>
             /\ Created = <<Op("create", config.out)>>
             /\ \A i \in 1..Len(config.inputs) :
                  \E k \in 1..Len(io) : io[k] = Op("read", config.inputs[i])
             /\ io[Len(io)] = Op("create", config.out)
             /\ local.pending = <<>>
             /\ Cardinality(DOMAIN local.result) = Len(Flatten(local.input_shares))
             /\ exit \in {"SUCCESS", "CreateFailed"}
        /\ disk[config.out].kind \notin {"missing", "nodir"} =>
             /\ exit = "SUCCESS"
             /\ disk[config.out] = ShareMapFile(local.result)

\* three inputs were read and the merge failed on a key of the third
C32_Witness ==
    /\ Merging
    /\ exit = "DuplicateShareKey"
    /\ Len(config.inputs) = 3
    /\ Cardinality(DOMAIN local.result) >= 2
    /\ disk[config.out].kind = "missing"

(***************************************************************************)
(* The stages that support REP3 only.                                      *)
(***************************************************************************)
InitRep3Only == InitSplitInput \/ InitMerge \/ InitWitgen

NextRep3Only ==
    \/ NextSplitInput
    \/ NextMerge
    \/ NextWitgen

SpecRep3Only == InitRep3Only /\ [][NextRep3Only]_vars

Rep3OnlyStages == {"SplitInput", "MergeInputShares", "GenerateWitness"}

\* C33: split-input, merge-input-shares and generate-witness started with a
\* protocol other than REP3 end with the unsupported-protocol error without
\* any operation on a file or on the network and with the files as they
\* were; started with REP3 they never end with that error.
C33_Rep3OnlyRejectedFirst ==
    command \in Rep3OnlyStages =>
        /\ config.protocol # "REP3" =>
             /\ io = <<>>
             /\ pc \in {"validate", "done"}
             /\ exit \in {"running", "UnsupportedProtocol"}
             /\ pc = "done" <=> exit = "UnsupportedProtocol"
             /\ \A p \in DOMAIN disk :
                  disk[p].kind \in {"missing", "nodir", "garbage", "dir", "readonly_dir"}
                  \/ p \in DeclaredInputs
        /\ config.protocol = "REP3" => exit # "UnsupportedProtocol"

\* generate-witness was started with SHAMIR on an input share that does not
\* exist, and has been refused for its protocol
C33_Witness ==
    /\ command = "GenerateWitness"
    /\ config.protocol = "SHAMIR"
    /\ disk[config.input].kind = "missing"
    /\ pc = "done" /\ exit = "UnsupportedProtocol"

(***************************************************************************)
(* The preprocessing translate-witness asks for.                           *)
(***************************************************************************)
\* The run has called ShamirPreprocessing::new.
PreprocessingRequested ==
    /\ Translating
    /\ \E k \in 1..Len(io) : io[k] = Op("preprocess", Network)

\* C34: a translation that has asked for its preprocessing has asked for it
\* with threshold 1 and with as many pairs as the witness share file has
\* Shared slots, whatever the number of its Public slots; before that it has
\* asked for nothing.
C34_TranslatePreprocessingSize ==
    Translating =>
        IF PreprocessingRequested
        THEN LET slots == disk[config.witness].data
             IN  /\ local.threshold = 1
                 /\ local.num_pairs
                      = Cardinality({j \in 1..Len(slots) : slots[j].tag = "Shared"})
                 /\ Len(local.shares) = local.num_pairs
        ELSE local.num_pairs = 0 /\ local.threshold = 0

\* the preprocessing was asked for a witness share with a Public and a
\* Shared slot: one pair
C34_Witness ==
    /\ PreprocessingRequested
    /\ Len(local.witness_share) = 2
    /\ local.witness_share[1].tag = "Public"
    /\ local.witness_share[2].tag = "Shared"
    /\ local.num_pairs = 1

\* the preprocessing was asked for a witness share without a Shared slot
PreprocessingOfNoPairs ==
    /\ PreprocessingRequested
    /\ Len(local.witness_share) = 2
    /\ local.num_pairs = 0

(***************************************************************************)
(* circom-types: the Groth16 zkey parser, ZKey::from_reader                *)
(* (src/circom-types/src/groth16/zkey.rs).                                 *)
(*                                                                         *)
(* The file is the input.  Its section table and magic are fixed at Init;  *)
(* the values the parser deserializes are drawn when it reads them, and    *)
(* kept in `local` so that a second read of the header returns the same    *)
(* values.  `exit` is the value from_reader returns: "Ok", one of the      *)
(* ZKeyParserError variants, or "panic".                                   *)
(***************************************************************************)
MaxVars == 2
MaxDomain == 2
MaxCoeffs == 3

\* usize arithmetic wraps at 2^UsizeBits when overflow checks are off; the
\* width is 64 on the targets of the crate and is scaled down here, with
\* every value of the model far below it
UsizeBits == 16
UsizeRange == 2 ^ UsizeBits
WrappingSub(a, b) == (a - b + UsizeRange) % UsizeRange

\* <P::BaseField as PrimeField>::MODULUS; the scalar field is Field
BaseFieldModulus == 7
ScalarFieldModulus == FieldModulus
RecordedModuli == {FieldModulus, BaseFieldModulus}

ZKeyParserError == {"SerializationError", "InvalidGroth16Header", "IoError"}

\* the section ids from_reader looks up
SectionsRead == {2, 3, 4, 5, 6, 7, 8, 9}
SectionTables == {SectionsRead \ lacking : lacking \in {{}} \cup {{s} : s \in SectionsRead}}

\* every point section of the file holds this many well-formed points
PointsInFile == MaxVars + MaxDomain + 1

Headers ==
    [q : RecordedModuli, r : RecordedModuli,
     n_vars : 0..MaxVars, n_public : 0..MaxVars, domain_size : 0..MaxDomain]

\* the coefficients of section 4: the i-th of the file carries signal i, which
\* tells the entries of a row apart
Coefficients == [matrix : 0..2, constraint : 0..MaxDomain]
CoefficientLists ==
    UNION {{[i \in 1..n |-> [matrix |-> f[i].matrix, constraint |-> f[i].constraint,
                             signal |-> i, value |-> 1]] :
               f \in [1..n -> Coefficients]} : n \in 0..MaxCoeffs}

NoHeader == [q |-> 0, r |-> 0, n_vars |-> 0, n_public |-> 0, domain_size |-> 0]
NoKey == [gamma_abc_g1 |-> <<>>, a_query |-> <<>>, b_g1_query |-> <<>>,
          b_g2_query |-> <<>>, l_query |-> <<>>, h_query |-> <<>>]
NoMatrices ==
    [num_instance_variables |-> 0, num_witness_variables |-> 0, num_constraints |-> 0,
     a_num_non_zero |-> 0, b_num_non_zero |-> 0, c_num_non_zero |-> 0,
     a |-> <<>>, b |-> <<>>, c |-> <<>>]

InitZKey ==
    /\ command = "ZKey::from_reader"
    /\ \E sections \in SectionTables, magic_utf8 \in BOOLEAN :
         config = [sections |-> sections, magic_utf8 |-> magic_utf8]
    /\ disk = <<>>
    /\ pc = "new"
    /\ local = [header |-> NoHeader, header_read |-> FALSE, underflow |-> FALSE,
                l_len |-> 0, coeffs |-> <<>>, pk |-> NoKey, matrices |-> NoMatrices]
    /\ io = <<>>
    /\ exit = "running"

\* BinFile::new: the section table is collected; the magic is unwrapped as
\* UTF-8
BinFileNew ==
    /\ pc = "new"
    /\ IF ~config.magic_utf8
       THEN /\ Return("panic")
       ELSE /\ pc' = "groth_header"
            /\ exit' = exit
    /\ io' = Append(io, Op("read", "sections"))
    /\ UNCHANGED <<command, config, disk, local>>

\* get_section: self.sections.get(&id).unwrap()[0]
GetSection(id) == IF id \in config.sections THEN "Some" ELSE "panic"

\* HeaderGroth::read on the values the header section records
HeaderGrothRead(h) ==
    IF h.q # BaseFieldModulus THEN "InvalidGroth16Header"
    ELSE IF h.r # ScalarFieldModulus THEN "panic"
    ELSE "Ok"

\* proving_key, first statement: groth_header
GrothHeader ==
    /\ pc = "groth_header"
    /\ io' = Append(io, Op("read", "section 2"))
    /\ IF GetSection(2) = "panic"
       THEN /\ Return("panic")
            /\ local' = local
       ELSE \E h \in Headers :
              /\ local' = [local EXCEPT !.header = h, !.header_read = TRUE]
              /\ IF HeaderGrothRead(h) = "Ok"
                 THEN /\ pc' = "proving_key"
                      /\ exit' = exit
                 ELSE Return(HeaderGrothRead(h))
    /\ UNCHANGED <<command, config, disk>>

\* reader_utils::read_g1_vector / read_g2_vector: num points from the
\* position of the section, or the error of the reader
ReadVector(num, section_id) ==
    IF num <= PointsInFile
    THEN [res |-> "Ok", vec |-> [i \in 1..num |-> <<section_id, i>>]]
    ELSE [res |-> "IoError", vec |-> <<>>]

\* g1_section / g2_section
PointSection(num, section_id) ==
    IF GetSection(section_id) = "panic"
    THEN [res |-> "panic", vec |-> <<>>]
    ELSE ReadVector(num, section_id)

\* the first of the reads that does not return Ok, 0 if all do
RECURSIVE FirstFailure(_, _)
FirstFailure(reads, i) ==
    IF i > Len(reads) THEN 0
    ELSE IF reads[i].res # "Ok" THEN i
    ELSE FirstFailure(reads, i + 1)

\* n_vars - n_public - 1 on usize
LQueryLen(h) == h.n_vars - h.n_public - 1

\* proving_key after the header: ic, a_query, b_g1_query, b_g2_query,
\* l_query(n_vars - n_public - 1), h_query(domain_size)
ProvingKey ==
    /\ pc = "proving_key"
    /\ io' = Append(io, Op("read", "sections 3, 5..9"))
    /\ LET h == local.header
           first == <<PointSection(h.n_public + 1, 3), PointSection(h.n_vars, 5),
                      PointSection(h.n_vars, 6), PointSection(h.n_vars, 7)>>
       IN  IF FirstFailure(first, 1) # 0
           THEN /\ Return(first[FirstFailure(first, 1)].res)
                /\ local' = local
           ELSE \E overflow_checks \in BOOLEAN :
                  IF LQueryLen(h) < 0 /\ overflow_checks
                  THEN /\ Return("panic")
                       /\ local' = [local EXCEPT !.underflow = TRUE]
                  ELSE LET l_len == WrappingSub(h.n_vars - h.n_public, 1)
                           rest == <<PointSection(l_len, 8),
                                     PointSection(h.domain_size, 9)>>
                           seen == [local EXCEPT !.l_len = l_len,
                                                 !.underflow = LQueryLen(h) < 0]
                       IN  IF FirstFailure(rest, 1) # 0
                           THEN /\ Return(rest[FirstFailure(rest, 1)].res)
                                /\ local' = seen
                           ELSE /\ pc' = "matrices"
                                /\ exit' = exit
                                /\ local' = [seen EXCEPT !.pk =
                                     [gamma_abc_g1 |-> first[1].vec,
                                      a_query |-> first[2].vec,
                                      b_g1_query |-> first[3].vec,
                                      b_g2_query |-> first[4].vec,
                                      l_query |-> rest[1].vec,
                                      h_query |-> rest[2].vec]]
    /\ UNCHANGED <<command, config, disk>>

\* the largest constraint index of the coefficients, 0 without coefficients
RECURSIVE MaxConstraintIndex(_)
MaxConstraintIndex(coeffs) ==
    IF coeffs = <<>> THEN 0
    ELSE LET rest == MaxConstraintIndex(SubSeq(coeffs, 1, Len(coeffs) - 1))
             last == coeffs[Len(coeffs)].constraint
         IN  IF last > rest THEN last ELSE rest

\* matrices[matrix][constraint] after the loop: the (value, signal) pairs of
\* the coefficients of that matrix and row, in the order of the file
RECURSIVE RowOf(_, _, _)
RowOf(coeffs, matrix, constraint) ==
    IF coeffs = <<>> THEN <<>>
    ELSE LET c == Head(coeffs)
             rest == RowOf(Tail(coeffs), matrix, constraint)
         IN  IF c.matrix = matrix /\ c.constraint = constraint
             THEN <<(<<c.value, c.signal>>)>> \o rest
             ELSE rest

\* vec![vec![]; domain_size] filled by the loop, then truncate(num_constraints)
MatrixOf(coeffs, matrix, domain_size, num_constraints) ==
    LET rows == IF num_constraints < domain_size THEN num_constraints ELSE domain_size
    IN  [row \in 1..rows |-> RowOf(coeffs, matrix, row - 1)]

RECURSIVE NumNonZero(_)
NumNonZero(rows) ==
    IF rows = <<>> THEN 0 ELSE Len(Head(rows)) + NumNonZero(Tail(rows))

\* matrices[matrix as usize][constraint as usize] of a coefficient is inside
\* the two vectors of domain_size rows
IndexInBounds(c, domain_size) == c.matrix < 2 /\ c.constraint < domain_size

\* BinFile::matrices
Matrices ==
    /\ pc = "matrices"
    /\ io' = Append(io, Op("read", "sections 2, 4"))
    /\ LET h == local.header
       IN  IF GetSection(2) = "panic" \/ GetSection(4) = "panic"
           THEN /\ Return("panic")
                /\ local' = local
           ELSE \E coeffs \in CoefficientLists, overflow_checks \in BOOLEAN :
                  LET max_constraint_index == MaxConstraintIndex(coeffs)
                      seen == [local EXCEPT !.coeffs = coeffs]
                  IN  IF \E i \in 1..Len(coeffs) : ~IndexInBounds(coeffs[i], h.domain_size)
                      THEN /\ Return("panic")
                           /\ local' = seen
                      ELSE IF max_constraint_index < h.n_public /\ overflow_checks
                      THEN /\ Return("panic")
                           /\ local' = seen
                      ELSE LET num_constraints ==
                                   WrappingSub(max_constraint_index, h.n_public)
                               a == MatrixOf(coeffs, 0, h.domain_size, num_constraints)
                               b == MatrixOf(coeffs, 1, h.domain_size, num_constraints)
                           IN  /\ Return("Ok")
                               /\ local' = [seen EXCEPT !.matrices =
                                    [num_instance_variables |-> h.n_public + 1,
                                     num_witness_variables |->
                                         WrappingSub(h.n_vars, h.n_public),
                                     num_constraints |-> num_constraints,
                                     a_num_non_zero |-> NumNonZero(a),
                                     b_num_non_zero |-> NumNonZero(b),
                                     c_num_non_zero |-> 0,
                                     a |-> a, b |-> b, c |-> <<>>]]
    /\ UNCHANGED <<command, config, disk>>

NextZKey ==
    \/ BinFileNew
    \/ GrothHeader
    \/ ProvingKey
    \/ Matrices

SpecZKey == InitZKey /\ [][NextZKey]_vars

ParsingZKey == command = "ZKey::from_reader"

\* the header section was read and records a modulus that is not the curve's
WrongModulusRecorded ==
    /\ ParsingZKey
    /\ local.header_read
    /\ \/ local.header.q # BaseFieldModulus
       \/ local.header.r # ScalarFieldModulus

\* C35: once the parser has read a header whose recorded q is not the
\* base-field modulus of the curve, or whose recorded r is not its
\* scalar-field modulus, from_reader has returned InvalidGroth16Header.
C35_WrongModulusIsInvalidHeader ==
    WrongModulusRecorded => pc = "done" /\ exit = "InvalidGroth16Header"

\* the part of C35 about q alone
WrongBaseModulusIsInvalidHeader ==
    (ParsingZKey /\ local.header_read /\ local.header.q # BaseFieldModulus)
        => pc = "done" /\ exit = "InvalidGroth16Header"

\* a header with the right q and a wrong r was read
WrongScalarModulusRead ==
    /\ ParsingZKey
    /\ local.header_read
    /\ local.header.q = BaseFieldModulus
    /\ local.header.r # ScalarFieldModulus
    /\ exit = "panic"

\* proving_key has returned Ok: from_reader goes on to the matrices
ProvingKeyParsed == ParsingZKey /\ (pc = "matrices" \/ (pc = "done" /\ local.pk # NoKey))

\* the lengths of the vectors of a parsed proving key, from the header
ProvingKeyLengths ==
    ProvingKeyParsed =>
        LET h == local.header
        IN  /\ Len(local.pk.gamma_abc_g1) = h.n_public + 1
            /\ Len(local.pk.a_query) = h.n_vars
            /\ Len(local.pk.b_g1_query) = h.n_vars
            /\ Len(local.pk.b_g2_query) = h.n_vars
            /\ Len(local.pk.l_query) = h.n_vars - h.n_public - 1
            /\ Len(local.pk.h_query) = h.domain_size

\* C36: a parsed proving key has gamma_abc_g1 of length n_public + 1,
\* a_query, b_g1_query and b_g2_query of length n_vars, l_query of length
\* n_vars - n_public - 1 and h_query of length domain_size, and the parser
\* never evaluates n_vars - n_public - 1 below zero on a header that
\* HeaderGroth::read accepted.
C36_ProvingKeyLengthsWithoutUnderflow ==
    /\ ProvingKeyLengths
    /\ ParsingZKey => ~local.underflow

\* an accepted header with n_vars <= n_public reached the subtraction
LQueryLenUnderflow ==
    /\ ParsingZKey
    /\ local.header_read
    /\ HeaderGrothRead(local.header) = "Ok"
    /\ local.header.n_vars <= local.header.n_public
    /\ local.underflow

\* a proving key was parsed from a header with public inputs
ProvingKeyParsedWithPublic ==
    /\ ProvingKeyParsed
    /\ local.header.n_public = 1
    /\ local.header.n_vars = 2
    /\ local.header.domain_size = 2

\* from_reader has returned Ok: the matrices are parsed
MatricesParsed == ParsingZKey /\ pc = "done" /\ exit = "Ok"

\* the (value, signal) pairs of the coefficients read for a matrix and a
\* constraint, in the order of the file
EntriesInFileOrder(matrix, constraint) ==
    LET picked == SelectSeq(local.coeffs,
                      LAMBDA c : c.matrix = matrix /\ c.constraint = constraint)
    IN  [i \in 1..Len(picked) |-> <<picked[i].value, picked[i].signal>>]

EntriesKept(rows) ==
    Cardinality({<<row, i>> \in (DOMAIN rows) \X (0..MaxCoeffs) :
                    i \in DOMAIN rows[row]})

LargestConstraintIndex ==
    IF local.coeffs = <<>> THEN 0
    ELSE CHOOSE k \in 0..MaxDomain :
           /\ \E i \in DOMAIN local.coeffs : local.coeffs[i].constraint = k
           /\ \A i \in DOMAIN local.coeffs : local.coeffs[i].constraint <= k

ConstraintMatricesAsStated ==
    LET h == local.header
        ms == local.matrices
    IN  /\ ms.num_instance_variables = h.n_public + 1
        /\ ms.num_witness_variables = h.n_vars - h.n_public
        /\ ms.num_constraints = LargestConstraintIndex - h.n_public
        /\ Len(ms.a) = ms.num_constraints
        /\ Len(ms.b) = ms.num_constraints
        /\ \A row \in DOMAIN ms.a : ms.a[row] = EntriesInFileOrder(0, row - 1)
        /\ \A row \in DOMAIN ms.b : ms.b[row] = EntriesInFileOrder(1, row - 1)
        /\ ms.a_num_non_zero = EntriesKept(ms.a)
        /\ ms.b_num_non_zero = EntriesKept(ms.b)
        /\ ms.c = <<>>
        /\ ms.c_num_non_zero = 0

\* C37: the matrices from_reader returns have num_instance_variables =
\* n_public + 1, num_witness_variables = n_vars - n_public, num_constraints =
\* the largest constraint index of the coefficients minus n_public, a and b
\* of exactly num_constraints rows holding the coefficients of matrix 0 and
\* matrix 1 of each row in file order, a_num_non_zero and b_num_non_zero
\* counting the entries kept, and an empty c with c_num_non_zero = 0.
C37_ConstraintMatrices == MatricesParsed => ConstraintMatricesAsStated

\* the same for the files whose largest constraint index is at least n_public
ConstraintMatricesWithoutUnderflow ==
    (MatricesParsed /\ LargestConstraintIndex >= local.header.n_public)
        => ConstraintMatricesAsStated

\* matrices were returned for a file whose largest constraint index is below
\* n_public
NumConstraintsUnderflow ==
    /\ MatricesParsed
    /\ LargestConstraintIndex < local.header.n_public
    /\ local.matrices.num_constraints > MaxDomain

\* matrices with two entries in one row of a were returned
MatricesWithTwoEntryRow ==
    /\ MatricesParsed
    /\ local.matrices.num_constraints = 1
    /\ Len(local.matrices.a) = 1
    /\ Len(local.matrices.a[1]) = 2
    /\ local.matrices.a[1][1] # local.matrices.a[1][2]

\* the section table of the file lacks one of the sections from_reader reads
SectionLacking == ParsingZKey /\ config.sections # SectionsRead

\* C38: from_reader on a file with a UTF-8 magic whose section table lacks
\* one of the sections 2 to 9 ends by returning a ZKeyParserError, never by a
\* panic.
C38_MissingSectionIsAnError ==
    (SectionLacking /\ config.magic_utf8 /\ pc = "done") => exit \in ZKeyParserError

\* from_reader panicked in get_section: the magic is UTF-8, the header, where
\* it exists, was accepted, and no subtraction went below zero
GetSectionPanicked ==
    /\ SectionLacking
    /\ config.magic_utf8
    /\ local.header_read => HeaderGrothRead(local.header) = "Ok"
    /\ ~local.underflow
    /\ local.coeffs = <<>>
    /\ pc = "done"
    /\ exit = "panic"

\* a file with all its sections was parsed
AllSectionsParsed ==
    /\ ParsingZKey
    /\ config.sections = SectionsRead
    /\ pc = "done"
    /\ exit = "Ok"

====
